---- MODULE Spec2Model ----
(***************************************************************************)
(* Driftville agent runtime: the per-tick ORPDA loop of run_simulation     *)
(* (app/src/simulate.py), the stage-result merger run_orpda_cycle          *)
(* (app/src/orpda_runner.py), the sliding-window RateLimiter               *)
(* (app/src/gemini_api.py, app/src/llm_api.py), alone and under the tasks  *)
(* run_all_models gathers, the retry wrappers with_backoff and             *)
(* safe_generate, the conversation loop and store_turns                    *)
(* (app/src/conversation_manager.py, app/app.py), the gate _llm_semaphore  *)
(* and the memory ranker (app/src/brain.py), and detect_inherent_drift     *)
(* (app/src/utils/metrics.py).                                             *)
(*                                                                         *)
(* Python values are encoded as follows.  A dict is a record over the      *)
(* keys the code reads or writes; a key the dict does not hold has the     *)
(* value Absent.  JSON null / Python None is the value None.  JSON false   *)
(* is "false", the number 0 is "0".  Simulated time is minutes counted     *)
(* from the start of the schedule's day; a "%Y-%m-%d %H:%M" string and the *)
(* datetime it parses to carry the same minute count.                      *)
(***************************************************************************)
EXTENDS Integers, Sequences, FiniteSets, TLC

VARIABLES
    (* run_simulation *)
    pc,                 \* position of run_simulation: loop / await_orpda / sleep / done / raised
    error,              \* the exception that left run_simulation, "" when none
    steps,              \* the steps argument
    tick,               \* loop variable
    current_time,       \* simulated time of the tick
    last_action_result, \* <<>> for None, <<record>> otherwise
    ctx,                \* <<>> outside a tick, <<context record>> inside
    gen,                \* what run_orpda_cycle returned for the tick, before any mutation
    orpda_out,          \* the same dict after the tick mutated the blocks it aliases
    obs, ref, plan, drift, action_result,   \* the tick's local blocks
    agent_current_action,
    memory_cache_len,   \* len(memory_cache)
    session_log,        \* the entries appended to the session log: <<tick, sim_time>>
    (* run_orpda_cycle *)
    m_pc,               \* await_runner / returned / raised
    m_ctx,              \* the context argument
    events,             \* the part texts of the events runner.run_debug returned
    m_result,           \* the dict run_orpda_cycle returned
    m_error,            \* the exception that left run_orpda_cycle, "" when none
    (* RateLimiter *)
    rate,               \* calls_per_minute
    now,                \* time.time(), in tenths of a second
    calls,              \* the deque of timestamps
    rl_pc,              \* per caller: idle / sleeping
    rl_wake,            \* per caller: when its asyncio.sleep is over
    stamps,             \* every timestamp acquire() ever recorded, in order
    (* the conversation loop of _run_tick and with_backoff *)
    c_pc,               \* wants / backoff / done / raised / returned
    c_answers,          \* what safe_generate handed wants_to_speak, turn by turn
    turn,               \* iterations of the turn loop started
    dialogue,           \* the turns appended so far
    speaker,            \* "a" or "b"
    b_pc,               \* with_backoff: idle / first / sleeping / retry
    b_slept,            \* seconds with_backoff slept in the current call
    b_trace,            \* what happened in the current with_backoff call
    b_outcome,          \* how the last with_backoff call ended
    (* safe_generate *)
    sg_pc,              \* calling / sleeping / returned
    sg_retries,         \* the retries argument
    sg_base_delay,      \* the base_delay argument, in seconds
    sg_attempt,         \* loop variable
    sg_trace,           \* what happened in the call, in order
    sg_sleeps,          \* the durations passed to asyncio.sleep, in order
    sg_result,          \* <<>> before the return, <<value>> after
    (* ConversationManager.store_turns, run_and_log, log_conv_memory *)
    st_pc,              \* per call: start / summarizing / scoring / retrying / ended how
    st_arg,             \* per call: the dialogue and context arguments
    st_summary,         \* per call: summary_text
    seen,               \* self._seen
    event_log,          \* the lines of event_logs.jsonl
    agent_memory,       \* agent.memory of agent1 and agent2
    memory_log,         \* the lines of memory.jsonl
    (* slot_at and next_slot on arbitrary schedules *)
    sl_pc,              \* ready / done
    sl_schedule,        \* the schedule argument
    sl_time,            \* the dt argument
    sl_at,              \* what slot_at returned: <<>> or <<slot, start, end>>
    sl_next,            \* what next_slot returned: <<>> or <<slot, start, end>>
    (* _relevant_memories *)
    rk_pc,              \* ready / done
    rk_memory,          \* agent.memory
    rk_query,           \* the query built from other_name and context, "" when both are empty
    rk_limit,           \* the limit argument
    rk_result,          \* the list returned
    (* detect_inherent_drift *)
    dd_pc,              \* ready / returned / raised
    dd_row,             \* the four texts the row holds, each <<>> for None or <<text>>
    dd_result,          \* <<>> before the return, <<result dict>> after
    (* the gate _llm_semaphore and the coroutines that go through it *)
    g_pc,               \* per task: start / waiting / calling / backoff / done / raised
    g_kind,             \* per task: what the task runs
    g_fn,               \* per task: the function whose `async with` it is at or in
    g_attempt,          \* per task: loop variable of safe_generate
    g_retried,          \* per task: with_backoff already slept and retried
    g_holds,            \* the tasks inside an `async with _llm_semaphore` body
    sem                 \* _llm_semaphore._value

simVars == <<pc, error, steps, tick, current_time, last_action_result, ctx, gen, orpda_out,
             obs, ref, plan, drift, action_result, agent_current_action,
             memory_cache_len, session_log>>
mergeVars == <<m_pc, m_ctx, events, m_result, m_error>>
rlVars == <<rate, now, calls, rl_pc, rl_wake, stamps>>
convVars == <<c_pc, c_answers, turn, dialogue, speaker, b_pc, b_slept, b_trace, b_outcome>>
sgVars == <<sg_pc, sg_retries, sg_base_delay, sg_attempt, sg_trace, sg_sleeps, sg_result>>
storeVars == <<st_pc, st_arg, st_summary, seen, event_log, agent_memory, memory_log>>
slotVars == <<sl_pc, sl_schedule, sl_time, sl_at, sl_next>>
rankVars == <<rk_pc, rk_memory, rk_query, rk_limit, rk_result>>
ddVars == <<dd_pc, dd_row, dd_result>>
gateVars == <<g_pc, g_kind, g_fn, g_attempt, g_retried, g_holds, sem>>
lateVars == <<ddVars, gateVars>>
moreVars == <<sgVars, storeVars, slotVars, rankVars, lateVars>>
vars == <<simVars, mergeVars, rlVars, convVars, moreVars>>
notSim == <<mergeVars, rlVars, convVars, moreVars>>
notMerge == <<simVars, rlVars, convVars, moreVars>>
notRL == <<simVars, mergeVars, convVars, moreVars>>
notConv == <<simVars, mergeVars, rlVars, moreVars>>
oldVars == <<simVars, mergeVars, rlVars, convVars>>
notSG == <<oldVars, storeVars, slotVars, rankVars, lateVars>>
notStore == <<oldVars, sgVars, slotVars, rankVars, lateVars>>
notSlot == <<oldVars, sgVars, storeVars, rankVars, lateVars>>
notRank == <<oldVars, sgVars, storeVars, slotVars, lateVars>>
notDD == <<oldVars, sgVars, storeVars, slotVars, rankVars, gateVars>>
notGate == <<oldVars, sgVars, storeVars, slotVars, rankVars, ddVars>>

----------------------------------------------------------------------------
(* Python values *)

Absent == "<absent>"
None == "<None>"
\* no datetime_start / duration_min / next_datetime key in the dict
NoTime == 0 - 1

\* bool(v) of a value a dict lookup returned (a missing key reads as None)
Truthy(v) == v \notin {Absent, None, "", "false", "0"}

\* a or b
Or(a, b) == IF Truthy(a) THEN a ELSE b

\* d.get(k): None for a missing key
Get(v) == IF v = Absent THEN None ELSE v

\* d.get(k, default)
GetD(v, default) == IF v = Absent THEN default ELSE v

\* float(x) of the encoded numbers, in tenths
FloatOf(v) ==
    CASE v = "0" -> 0
      [] v = "-0.3" -> 0 - 3
      [] v = "0.7" -> 7
      [] OTHER -> 0

\* float(x) raises ValueError on a string that is no number
FloatRaises(v) == v = "high"

MINUTES_PER_STEP == 15

----------------------------------------------------------------------------
(* Blocks *)

EmptyBlock ==
    [location |-> Absent, action |-> Absent, topic |-> Absent,
     state_summary |-> Absent, drift_type |-> Absent, drift_topic |-> Absent,
     datetime_start |-> NoTime, duration_min |-> NoTime, next_datetime |-> NoTime]

EmptyDrift ==
    [should_drift |-> Absent, drift_intensity |-> Absent, drift_type |-> Absent,
     drift_topic |-> Absent, drift_action |-> Absent, justification |-> Absent,
     potential_recovery |-> Absent,
     datetime_start |-> NoTime, duration_min |-> NoTime, next_datetime |-> NoTime]

Keys == {"observation", "reflection", "plan", "drift_decision", "action_result"}

----------------------------------------------------------------------------
(* Schedule: agent.daily_schedule as load_agent builds it *)

Schedule ==
    << [datetime_start |-> 0, duration_min |-> 15, location |-> "cafe",
        action |-> "work", notes |-> "opening cafe"],
       [datetime_start |-> NoTime, duration_min |-> 15, location |-> "gym",
        action |-> "train", notes |-> "unparsable start"],
       [datetime_start |-> 15, duration_min |-> 30, location |-> "home",
        action |-> "rest", notes |-> ""],
       [datetime_start |-> 60, duration_min |-> 15, location |-> "office",
        action |-> "meet", notes |-> "standup"] >>

StartTimes == {0, 30, 45}

\* datetime.strptime(slot.get("datetime_start"), DATE_FMT) raises
Unparsable(slot) == slot.datetime_start = NoTime

SetMin(S) == CHOOSE x \in S : \A y \in S : x <= y

\* slot_at that keeps the last match in list order
slot_at_LastMatch(schedule, dt) ==
    LET hits == {i \in 1..Len(schedule) :
                    /\ ~Unparsable(schedule[i])
                    /\ schedule[i].datetime_start <= dt
                    /\ dt < schedule[i].datetime_start + schedule[i].duration_min}
    IN  IF hits = {} THEN <<>>
        ELSE <<schedule[CHOOSE i \in hits : \A j \in hits : j <= i]>>

slot_at(schedule, dt) ==
    LET hits == {i \in 1..Len(schedule) :
                    /\ ~Unparsable(schedule[i])
                    /\ schedule[i].datetime_start <= dt
                    /\ dt < schedule[i].datetime_start + schedule[i].duration_min}
    IN  IF hits = {} THEN <<>> ELSE <<schedule[SetMin(hits)]>>

\* next_slot without the sort: the first future slot in list order
next_slot_Unsorted(schedule, dt) ==
    LET future == {i \in 1..Len(schedule) :
                    /\ ~Unparsable(schedule[i])
                    /\ schedule[i].datetime_start > dt}
    IN  IF future = {} THEN <<>> ELSE <<schedule[SetMin(future)]>>

next_slot(schedule, dt) ==
    LET future == {i \in 1..Len(schedule) :
                    /\ ~Unparsable(schedule[i])
                    /\ schedule[i].datetime_start > dt}
        first == {i \in future : \A j \in future :
                    \/ schedule[i].datetime_start < schedule[j].datetime_start
                    \/ (schedule[i].datetime_start = schedule[j].datetime_start /\ i <= j)}
    IN  IF future = {} THEN <<>> ELSE <<schedule[SetMin(first)]>>

SlotEnd(slot) == slot.datetime_start + slot.duration_min

----------------------------------------------------------------------------
(* The observer stage: deterministic_observe *)

deterministic_observe(c) ==
    LET hasSlot == c.current_slot # <<>>
        hasLast == c.last_action_result # <<>>
        last == IF hasLast THEN c.last_action_result[1] ELSE EmptyBlock
        lastNext == IF hasLast /\ last.next_datetime # NoTime THEN <<last.next_datetime>> ELSE <<>>
        dt == IF lastNext # <<>> THEN lastNext[1]
              ELSE IF hasSlot THEN c.current_slot[1].datetime_start
              ELSE c.current_datetime
        loc == Or(last.location, IF hasSlot THEN c.current_slot[1].location ELSE "unknown")
        act == Or(last.action, IF hasSlot THEN c.current_slot[1].action ELSE "unknown")
    IN  [EmptyBlock EXCEPT !.datetime_start = dt,
                           !.duration_min = IF hasSlot THEN c.current_slot[1].duration_min ELSE 15,
                           !.location = loc, !.action = act,
                           !.state_summary = "observed"]

----------------------------------------------------------------------------
(* run_simulation: the normalization of one tick.  L is the record of the  *)
(* tick's local blocks [obs, ref, plan, drift, ar].                        *)

\* orpda_out.get(key, {}) or {}: the dict orpda_out holds, or a fresh one when
\* the key is missing or its dict is empty
LocalBlock(out, key, empty) ==
    IF key \in out.present /\ out[key] # empty THEN out[key] ELSE empty

\* whether the local block is the very dict orpda_out holds
Aliased(out, key, empty) == key \in out.present /\ out[key] # empty

Locals(out) ==
    [obs |-> LocalBlock(out, "observation", EmptyBlock),
     ref |-> LocalBlock(out, "reflection", EmptyBlock),
     plan |-> LocalBlock(out, "plan", EmptyBlock),
     drift |-> LocalBlock(out, "drift_decision", EmptyDrift),
     ar |-> LocalBlock(out, "action_result", EmptyBlock)]

\* CleanupNext leaving the reflection's next_datetime in place
CleanupNext_KeepsReflection(L) ==
    [obs |-> [L.obs EXCEPT !.next_datetime = NoTime],
     ref |-> L.ref,
     plan |-> [L.plan EXCEPT !.next_datetime = NoTime],
     drift |-> [L.drift EXCEPT !.next_datetime = NoTime],
     ar |-> [L.ar EXCEPT !.next_datetime = NoTime]]

\* block.pop("next_datetime", None) on the five blocks
CleanupNext(L) ==
    [obs |-> [L.obs EXCEPT !.next_datetime = NoTime],
     ref |-> [L.ref EXCEPT !.next_datetime = NoTime],
     plan |-> [L.plan EXCEPT !.next_datetime = NoTime],
     drift |-> [L.drift EXCEPT !.next_datetime = NoTime],
     ar |-> [L.ar EXCEPT !.next_datetime = NoTime]]

\* float(drift.get("drift_intensity") or 0) raises
IntensityRaises(d) == FloatRaises(Or(d.drift_intensity, "0"))


\* DriftIsOff with `intensity < 0` for `intensity <= 0`
DriftIsOff_Strict(d) ==
    \/ ~Truthy(d.should_drift)
    \/ FloatOf(Or(d.drift_intensity, "0")) < 0

\* (not should_drift) or intensity <= 0
DriftIsOff(d) ==
    \/ ~Truthy(d.should_drift)
    \/ FloatOf(Or(d.drift_intensity, "0")) <= 0

DriftOffFields(d) ==
    [d EXCEPT !.should_drift = "false",
              !.drift_type = "none",
              !.drift_topic = "",
              !.drift_intensity = "0",
              !.drift_action = Or(d.drift_action, "continue"),
              !.potential_recovery = "",
              !.justification = ""]

NormalizeDriftOff(L) ==
    IF DriftIsOff(L.drift)
    THEN [L EXCEPT !.drift = DriftOffFields(L.drift),
                   !.ar = [L.ar EXCEPT !.drift_type = "none", !.drift_topic = Absent]]
    ELSE L

Stamp(b, t) == [b EXCEPT !.datetime_start = t, !.duration_min = MINUTES_PER_STEP]

\* for block in (obs, plan, drift, action_result)
AuthoritativeTimestamps(L, t) ==
    [L EXCEPT !.obs = Stamp(L.obs, t),
              !.plan = Stamp(L.plan, t),
              !.drift = Stamp(L.drift, t),
              !.ar = Stamp(L.ar, t)]

DriftPropagation(L) ==
    IF L.drift.drift_type # Absent
    THEN [L EXCEPT !.ar = [L.ar EXCEPT !.drift_type = L.drift.drift_type,
                                       !.drift_topic = Get(L.drift.drift_topic)]]
    ELSE L

\* slot.get("notes") or slot.get("action")
SlotTopic(slot) == Or(slot.notes, slot.action)

AlignBlock(b, slot) ==
    [b EXCEPT !.location = slot.location,
              !.action = slot.action,
              !.topic = Or(SlotTopic(slot), Get(b.topic))]


\* IsFirstTickWithSlot with the None test inverted
IsFirstTickWithSlot_Inverted(last, cur) == last # <<>> /\ cur # <<>>

\* last_action_result is None and cur_slot
IsFirstTickWithSlot(last, cur) == last = <<>> /\ cur # <<>>

FirstTickAlign(L, last, cur) ==
    IF IsFirstTickWithSlot(last, cur)
    THEN [L EXCEPT !.obs = AlignBlock(L.obs, cur[1]),
                   !.plan = AlignBlock(L.plan, cur[1]),
                   !.ar = AlignBlock(L.ar, cur[1])]
    ELSE L


\* AlignTypes without "internal"
AlignTypes_NoInternal == {"none", None, "attentional_leak"}

\* the drift types under which the slot is forced on the action result
AlignTypes == {"none", None, "internal", "attentional_leak"}

ScheduleAlign(L, cur, t) ==
    LET drift_type == GetD(L.drift.drift_type, "none")
    IN  IF cur # <<>> /\ drift_type \in AlignTypes /\ t < SlotEnd(cur[1])
        THEN LET slot == cur[1]
                 a == [L.ar EXCEPT !.location = slot.location,
                                   !.action = slot.action,
                                   !.topic = Or(slot.notes, Or(slot.action, Get(L.ar.topic)))]
             IN  [L EXCEPT !.ar = a,
                           !.plan = [L.plan EXCEPT !.location = a.location,
                                                   !.action = a.action,
                                                   !.topic = a.topic]]
        ELSE L


\* PlanTypes with "behavioral" added
PlanTypes_WithBehavioral == {"none", "internal", "attentional_leak", "behavioral"}

\* the drift types under which the plan's place is copied to the action result
PlanTypes == {"none", "internal", "attentional_leak"}

\* KeepPlanned left out
KeepPlanned_Skipped(L) == L

KeepPlanned(L) ==
    LET drift_type == GetD(L.drift.drift_type, "none")
    IN  IF drift_type \in PlanTypes
        THEN [L EXCEPT !.ar =
                [L.ar EXCEPT !.location = IF Truthy(L.plan.location)
                                          THEN L.plan.location ELSE L.ar.location,
                             !.action = IF Truthy(L.plan.action)
                                        THEN L.plan.action ELSE L.ar.action,
                             !.topic = IF Truthy(L.plan.topic) /\ L.ar.topic = Absent
                                       THEN L.plan.topic ELSE L.ar.topic]]
        ELSE L

StateSummary(L) ==
    IF Get(L.drift.drift_type) = "none"
    THEN [L EXCEPT !.ar = [L.ar EXCEPT !.state_summary =
            Or(L.plan.state_summary,
               Or(L.obs.state_summary, GetD(L.ar.state_summary, "")))]]
    ELSE L

NextTick(L, t) ==
    [L EXCEPT !.ar = [L.ar EXCEPT !.next_datetime = t + MINUTES_PER_STEP]]

Normalize(out, last, cur, t) ==
    NextTick(
      StateSummary(
        KeepPlanned(
          ScheduleAlign(
            FirstTickAlign(
              DriftPropagation(
                AuthoritativeTimestamps(
                  NormalizeDriftOff(CleanupNext(Locals(out))), t)),
              last, cur),
            cur, t))),
      t)

CurrentAction(L, t) ==
    [sim_datetime |-> t,
     action |-> GetD(L.ar.action, GetD(L.plan.action, "idle")),
     location |-> GetD(L.ar.location, GetD(L.plan.location, "home")),
     drift_type |-> GetD(L.ar.drift_type, Get(L.drift.drift_type)),
     topic |-> GetD(L.ar.topic, Get(L.plan.topic))]

\* orpda_out as json.dumps sees it after the tick: a block that is aliased by a
\* local carries the local's mutations, any other block is as it was returned
Mutated(out, L) ==
    [present |-> out.present,
     observation |-> IF Aliased(out, "observation", EmptyBlock) THEN L.obs ELSE out.observation,
     reflection |-> IF Aliased(out, "reflection", EmptyBlock) THEN L.ref ELSE out.reflection,
     plan |-> IF Aliased(out, "plan", EmptyBlock) THEN L.plan ELSE out.plan,
     drift_decision |-> IF Aliased(out, "drift_decision", EmptyDrift) THEN L.drift
                        ELSE out.drift_decision,
     action_result |-> IF Aliased(out, "action_result", EmptyBlock) THEN L.ar
                       ELSE out.action_result]

----------------------------------------------------------------------------
(* What run_orpda_cycle can hand back to run_simulation.  The observation  *)
(* is the observer stage's; the other four blocks are whatever the         *)
(* generation service wrote, or are missing when their stage produced no   *)
(* parsable payload (run_orpda_cycle drops keys whose value is None).      *)

MaxSteps == 2

\* a decision that is on: should_drift true and a positive intensity, of any
\* type, with or without the side fields (drift_topic, drift_action,
\* justification, potential_recovery)
DriftTypes == {Absent, "none", "internal", "attentional_leak", "behavioral"}
Sides == {<<Absent, Absent, Absent, Absent>>,
          <<"window shopping", "pause", "bored", "refocus">>}

DriftRecord(sd, di, dt, side) ==
    [EmptyDrift EXCEPT !.should_drift = sd, !.drift_intensity = di,
                       !.drift_type = dt, !.drift_topic = side[1],
                       !.drift_action = side[2], !.justification = side[3],
                       !.potential_recovery = side[4]]

OnDecisions ==
    {DriftRecord("true", "0.7", dt, side) : dt \in DriftTypes, side \in Sides}

\* a decision that is off one way or another (should_drift false or missing,
\* intensity missing, zero or negative), which the service still labelled with
\* a type or not
OffDecisions ==
    {DriftRecord(x[1], x[2], dt, side) :
        x \in {<<"false", Absent>>, <<"false", "0.7">>,
               <<Absent, "0.7">>, <<"true", Absent>>, <<"true", "0">>,
               <<"true", "-0.3">>},
        dt \in {Absent, "behavioral"}, side \in Sides}

\* an intensity that is no number
BadDecisions ==
    {DriftRecord(sd, "high", "behavioral", <<"window shopping", "pause", "bored", "refocus">>) :
        sd \in {"false", "true"}}

DriftDecisions == OnDecisions \cup OffDecisions \cup BadDecisions

\* location/action (with its own drift fields) and topic the actor stage proposed
ActionResults ==
    {[EmptyBlock EXCEPT !.location = place[1], !.action = place[2],
                        !.state_summary = place[3],
                        !.drift_type = place[4], !.drift_topic = place[5],
                        !.topic = tp] :
        place \in {<<Absent, Absent, Absent, Absent, Absent>>,
                   <<"park", "stroll", "strolling", "behavioral", "shop">>},
        tp \in {Absent, "birds"}}

Plans ==
    {EmptyBlock,
     [EmptyBlock EXCEPT !.location = "library", !.action = "read",
                        !.topic = "novel", !.state_summary = "planning"]}

Reflections == {[EmptyBlock EXCEPT !.state_summary = "calm"]}

\* a stage's block: <<FALSE, _>> when the key is missing from the result
Missing(empty) == {<<FALSE, empty>>}
Present(blocks) == {<<TRUE, b>> : b \in blocks}

\* the timestamps the generation service wrote into its blocks
GenStamps == {"none", "wrong"}

GenStamp(pb, st) ==
    IF pb[1] /\ st = "wrong"
    THEN [pb[2] EXCEPT !.datetime_start = 999, !.duration_min = 30, !.next_datetime = 999]
    ELSE pb[2]

OrpdaOutput(c, r, p, d, a, st) ==
    [present |-> {"observation"}
                 \cup (IF r[1] THEN {"reflection"} ELSE {})
                 \cup (IF p[1] THEN {"plan"} ELSE {})
                 \cup (IF d[1] THEN {"drift_decision"} ELSE {})
                 \cup (IF a[1] THEN {"action_result"} ELSE {}),
     observation |-> deterministic_observe(c),
     reflection |-> GenStamp(r, st),
     plan |-> GenStamp(p, st),
     drift_decision |-> GenStamp(d, st),
     action_result |-> GenStamp(a, st)]

OrpdaOutputs(c) ==
    {OrpdaOutput(c, r, p, d, a, st) :
        r \in Present(Reflections),
        p \in Missing(EmptyBlock) \cup Present(Plans),
        d \in Missing(EmptyDrift) \cup Present(DriftDecisions),
        a \in Missing(EmptyBlock) \cup Present(ActionResults),
        st \in GenStamps}

----------------------------------------------------------------------------
(* run_simulation *)

SimInit ==
    /\ pc = "loop"
    /\ error = ""
    /\ steps = MaxSteps
    /\ tick = 0
    /\ current_time \in StartTimes
    /\ last_action_result = <<>>
    /\ ctx = <<>>
    /\ gen = <<>>
    /\ orpda_out = <<>>
    /\ obs = EmptyBlock /\ ref = EmptyBlock /\ plan = EmptyBlock
    /\ drift = EmptyDrift /\ action_result = EmptyBlock
    /\ agent_current_action = <<>>
    /\ memory_cache_len = 0
    /\ session_log = <<>>

\* InSteps with one iteration too many
InSteps_OneMore(t, n) == t <= n

\* for step in range(steps): whether iteration t is run
InSteps(t, n) == t < n

\* loop head: slot_at, next_slot, ctx, then await run_orpda_cycle(ctx)
BeginTick ==
    /\ pc = "loop"
    /\ InSteps(tick, steps)
    /\ ctx' = <<[current_datetime |-> current_time,
                 last_action_result |-> last_action_result,
                 current_slot |-> slot_at(Schedule, current_time),
                 next_slot |-> next_slot(Schedule, current_time)]>>
    /\ pc' = "await_orpda"
    /\ UNCHANGED <<error, steps, tick, current_time, last_action_result, gen, orpda_out,
                   obs, ref, plan, drift, action_result, agent_current_action,
                   memory_cache_len, session_log>>
    /\ UNCHANGED notSim

\* run_orpda_cycle returns; the tick is normalized and logged, then sleeps
OrpdaReturns ==
    /\ pc = "await_orpda"
    /\ \E out \in OrpdaOutputs(ctx[1]) :
        /\ ~IntensityRaises(Locals(out).drift)
        /\ LET L == Normalize(out, last_action_result, ctx[1].current_slot, current_time)
           IN  /\ gen' = <<out>>
               /\ orpda_out' = <<Mutated(out, L)>>
               /\ obs' = L.obs /\ ref' = L.ref /\ plan' = L.plan
               /\ drift' = L.drift /\ action_result' = L.ar
               /\ last_action_result' = <<L.ar>>
               /\ agent_current_action' = <<CurrentAction(L, current_time)>>
    /\ memory_cache_len' = memory_cache_len + 1
    /\ session_log' = Append(session_log, <<tick, current_time>>)
    /\ pc' = "sleep"
    /\ UNCHANGED <<error, steps, tick, current_time, ctx>>
    /\ UNCHANGED notSim

\* float(drift_intensity) raises ValueError inside the tick; nothing catches it
NormalizeRaises ==
    /\ pc = "await_orpda"
    /\ \E out \in OrpdaOutputs(ctx[1]) :
        /\ IntensityRaises(Locals(out).drift)
        /\ gen' = <<out>>
        /\ orpda_out' = <<out>>
    /\ pc' = "raised"
    /\ error' = "ValueError"
    /\ UNCHANGED <<steps, tick, current_time, last_action_result, ctx,
                   obs, ref, plan, drift, action_result, agent_current_action,
                   memory_cache_len, session_log>>
    /\ UNCHANGED notSim

\* the generation service raises inside runner.run_debug; run_orpda_cycle and
\* run_simulation have no handler around the await
OrpdaRaises ==
    /\ pc = "await_orpda"
    /\ pc' = "raised"
    /\ error' = "GenerationError"
    /\ UNCHANGED <<steps, tick, current_time, last_action_result, ctx, gen, orpda_out,
                   obs, ref, plan, drift, action_result, agent_current_action,
                   memory_cache_len, session_log>>
    /\ UNCHANGED notSim

\* log_memory_stream raises OSError (mkdir, open or write); the tick was
\* normalized and agent.current_action set, nothing was appended anywhere and
\* run_simulation has no handler around the call
MemoryStreamRaises ==
    /\ pc = "await_orpda"
    /\ \E out \in OrpdaOutputs(ctx[1]) :
        /\ ~IntensityRaises(Locals(out).drift)
        /\ LET L == Normalize(out, last_action_result, ctx[1].current_slot, current_time)
           IN  agent_current_action' = <<CurrentAction(L, current_time)>>
    /\ pc' = "raised"
    /\ error' = "OSError:memory_stream"
    /\ UNCHANGED <<steps, tick, current_time, last_action_result, ctx, gen, orpda_out,
                   obs, ref, plan, drift, action_result, memory_cache_len, session_log>>
    /\ UNCHANGED notSim

\* SESSION_LOG_PATH.open("a") or f.write raises OSError; the memory stream
\* and the memory cache already hold the tick, the session log does not, and
\* run_simulation has no handler around the write
SessionLogRaises ==
    /\ pc = "await_orpda"
    /\ \E out \in OrpdaOutputs(ctx[1]) :
        /\ ~IntensityRaises(Locals(out).drift)
        /\ LET L == Normalize(out, last_action_result, ctx[1].current_slot, current_time)
           IN  agent_current_action' = <<CurrentAction(L, current_time)>>
    /\ memory_cache_len' = memory_cache_len + 1
    /\ pc' = "raised"
    /\ error' = "OSError:session_log"
    /\ UNCHANGED <<steps, tick, current_time, last_action_result, ctx, gen, orpda_out,
                   obs, ref, plan, drift, action_result, session_log>>
    /\ UNCHANGED notSim

\* after asyncio.sleep(0.5): current_time += 15 minutes, next iteration.  The
\* tick's locals are dead from here on (each is reassigned before it is read).
Advance ==
    /\ pc = "sleep"
    /\ current_time' = current_time + MINUTES_PER_STEP
    /\ tick' = tick + 1
    /\ pc' = "loop"
    /\ gen' = <<>> /\ orpda_out' = <<>>
    /\ obs' = EmptyBlock /\ ref' = EmptyBlock /\ plan' = EmptyBlock
    /\ drift' = EmptyDrift /\ action_result' = EmptyBlock
    /\ ctx' = <<>>
    /\ UNCHANGED <<error, steps, last_action_result, agent_current_action,
                   memory_cache_len, session_log>>
    /\ UNCHANGED notSim

\* range(steps) is exhausted
LoopExit ==
    /\ pc = "loop"
    /\ ~InSteps(tick, steps)
    /\ pc' = "done"
    /\ UNCHANGED <<error, steps, tick, current_time, last_action_result, ctx, gen, orpda_out,
                   obs, ref, plan, drift, action_result, agent_current_action,
                   memory_cache_len, session_log>>
    /\ UNCHANGED notSim


----------------------------------------------------------------------------
(* run_orpda_cycle: merging the stage outputs.  An event part is modelled  *)
(* by the kind of its text, the code fence around it and, for a JSON       *)
(* object, the value it carries under each key (Absent: no such key, None: *)
(* JSON null, otherwise a token standing for the sub-result).              *)

MaxEvents == 2

PayloadKeys == Keys \cup {"extra"}

NoKeys == [k \in PayloadKeys |-> Absent]

Object(body) == [kind |-> "object", fence |-> "none", body |-> body]

Payloads ==
    \* a JSON object with one key
    {Object([NoKeys EXCEPT ![k] = v]) : k \in PayloadKeys, v \in {"a", "b", None}}
    \* a JSON object with two keys, and the empty object
    \cup {Object([NoKeys EXCEPT !["plan"] = "a", !["action_result"] = "b"]), Object(NoKeys)}
    \* the same object in a ```json block over several lines, and fenced on one line
    \cup {[kind |-> "object", fence |-> f, body |-> [NoKeys EXCEPT !["plan"] = "b"]] :
            f \in {"block", "inline"}}
    \* no text, prose, a JSON number, a JSON array of numbers
    \cup {[kind |-> kd, fence |-> "none", body |-> NoKeys] :
            kd \in {"no_text", "prose", "number", "array"}}

RECURSIVE SeqsUpTo(_, _)
SeqsUpTo(S, n) ==
    IF n = 0 THEN {<<>>}
    ELSE LET shorter == SeqsUpTo(S, n - 1)
         IN  shorter \cup {Append(q, x) : q \in {r \in shorter : Len(r) = n - 1}, x \in S}

\* extract_json_from_markdown: a text that starts with ``` loses its first and
\* last line; fenced on a single line, nothing is left of it
extract_json_from_markdown(p) ==
    IF p.fence = "inline" THEN [p EXCEPT !.kind = "prose"] ELSE p

\* `if not raw: continue`
NoText(p) == p.kind = "no_text"

\* json.loads(cleaned) raises
LoadsRaises(p) == extract_json_from_markdown(p).kind = "prose"

\* `key in data` raises TypeError: data is a number, a boolean or null
MembershipRaises(p) == extract_json_from_markdown(p).kind = "number"

\* the payload reaches the merge of the known keys with a mapping
Merges(p) == ~NoText(p) /\ ~LoadsRaises(p) /\ extract_json_from_markdown(p).kind = "object"

\* MergePayload that keeps a value once a payload supplied one
MergePayload_FirstWins(m, p) ==
    [k \in Keys |-> IF m[k] = None /\ p.body[k] # Absent THEN p.body[k] ELSE m[k]]

\* merged[key] = data[key] for the known keys the payload holds
MergePayload(m, p) ==
    [k \in Keys |-> IF p.body[k] # Absent THEN p.body[k] ELSE m[k]]

SeededMerged == [k \in Keys |-> None]

RECURSIVE MergeEvents(_, _)
MergeEvents(m, evs) ==
    IF evs = <<>> THEN m
    ELSE MergeEvents(IF Merges(Head(evs)) THEN MergePayload(m, Head(evs)) ELSE m, Tail(evs))

\* the loop raises at the first payload whose membership test raises
MergeRaisesOn(evs) ==
    \E i \in 1..Len(evs) : ~NoText(evs[i]) /\ ~LoadsRaises(evs[i]) /\ MembershipRaises(evs[i])

\* build_observation(context): current_slot = ctx.get("current_slot", {}) is
\* None when the key holds None, and current_slot.get raises AttributeError
BuildObservationRaises(c) == c.current_slot = None

build_observation(c) == "built"

\* merged["observation"] is None after the loop
NeedsFallback(evs) == MergeEvents(SeededMerged, evs)["observation"] = None

WithFallback(m, c) ==
    IF m["observation"] = None THEN [m EXCEPT !["observation"] = build_observation(c)] ELSE m

\* {k: v for k, v in merged.items() if v is not None}
RemoveNone(m) ==
    [present |-> {k \in Keys : m[k] # None},
     value |-> m]

MergeCtxs == {[current_slot |-> cs] : cs \in {Absent, None, "slot"}}

MergeInit ==
    /\ m_pc = "await_runner"
    /\ m_ctx \in MergeCtxs
    /\ events = <<>>
    /\ m_result = <<>>
    /\ m_error = ""

\* runner.run_debug returned its events and the merge went through
RunnerReturns ==
    /\ m_pc = "await_runner"
    /\ \E evs \in SeqsUpTo(Payloads, MaxEvents) :
        /\ ~MergeRaisesOn(evs)
        /\ ~(NeedsFallback(evs) /\ BuildObservationRaises(m_ctx))
        /\ events' = evs
        /\ m_result' = <<RemoveNone(WithFallback(MergeEvents(SeededMerged, evs), m_ctx))>>
    /\ m_pc' = "returned"
    /\ UNCHANGED <<m_ctx, m_error>>
    /\ UNCHANGED notMerge

\* a payload that parsed to a non-container makes `key in data` raise TypeError
MergeRaises ==
    /\ m_pc = "await_runner"
    /\ \E evs \in SeqsUpTo(Payloads, MaxEvents) :
        /\ MergeRaisesOn(evs)
        /\ events' = evs
    /\ m_pc' = "raised"
    /\ m_error' = "TypeError"
    /\ UNCHANGED <<m_ctx, m_result>>
    /\ UNCHANGED notMerge

\* no payload supplied an observation and the context's current_slot is None
FallbackRaises ==
    /\ m_pc = "await_runner"
    /\ \E evs \in SeqsUpTo(Payloads, MaxEvents) :
        /\ ~MergeRaisesOn(evs)
        /\ NeedsFallback(evs) /\ BuildObservationRaises(m_ctx)
        /\ events' = evs
    /\ m_pc' = "raised"
    /\ m_error' = "AttributeError"
    /\ UNCHANGED <<m_ctx, m_result>>
    /\ UNCHANGED notMerge


----------------------------------------------------------------------------
(* RateLimiter.acquire.  Time is counted in tenths of a second.            *)

WINDOW == 600
SLACK == 1

MaxRate == 2
MaxCalls == 4
MaxTime == 1250

\* how long the caller stays away between two acquire() calls
Advances == {299, 300, 301}

\* while self.calls and self.calls[0] < now - 60: self.calls.popleft()
RECURSIVE Prune(_, _)
Prune(q, t) ==
    IF q # <<>> /\ Head(q) < t - WINDOW THEN Prune(Tail(q), t) ELSE q


\* MustWait with `>` for `>=`
MustWait_OffByOne(q, r) == Len(q) > r

\* len(self.calls) >= self.rate
MustWait(q, r) == Len(q) >= r

\* wait_time + 0.1
SleepFor(q, t) == (WINDOW - (t - Head(q))) + SLACK

RLInit(C) ==
    /\ rate \in 1..MaxRate
    /\ now = 0
    /\ calls = <<>>
    /\ rl_pc = [c \in C |-> "idle"]
    /\ rl_wake = [c \in C |-> 0]
    /\ stamps = <<>>

\* acquire() with room in the window: no await is reached, the timestamp is
\* recorded at once
AcquireNoWait(c) ==
    /\ rl_pc[c] = "idle"
    /\ Len(stamps) < MaxCalls
    /\ ~MustWait(Prune(calls, now), rate)
    /\ calls' = Append(Prune(calls, now), now)
    /\ stamps' = Append(stamps, now)
    /\ UNCHANGED <<rate, now, rl_pc, rl_wake>>
    /\ UNCHANGED notRL

\* acquire() with a full window: prune, then await asyncio.sleep(wait_time + 0.1)
AcquireWait(c) ==
    /\ rl_pc[c] = "idle"
    /\ Len(stamps) < MaxCalls
    /\ MustWait(Prune(calls, now), rate)
    /\ calls' = Prune(calls, now)
    /\ rl_wake' = [rl_wake EXCEPT ![c] = now + SleepFor(Prune(calls, now), now)]
    /\ rl_pc' = [rl_pc EXCEPT ![c] = "sleeping"]
    /\ UNCHANGED <<rate, now, stamps>>
    /\ UNCHANGED notRL

\* the sleep is over (on time or late): self.calls.append(time.time())
Wake(c) ==
    /\ rl_pc[c] = "sleeping"
    /\ \E late \in {0, 1} :
        LET t == (IF now > rl_wake[c] THEN now ELSE rl_wake[c]) + late
        IN  /\ now' = t
            /\ calls' = Append(calls, t)
            /\ stamps' = Append(stamps, t)
    /\ rl_pc' = [rl_pc EXCEPT ![c] = "idle"]
    /\ UNCHANGED <<rate, rl_wake>>
    /\ UNCHANGED notRL

\* time passes while no caller is inside acquire()
Pass ==
    /\ \A c \in DOMAIN rl_pc : rl_pc[c] = "idle"
    /\ \E d \in Advances :
        /\ now + d <= MaxTime
        /\ now' = now + d
    /\ UNCHANGED <<rate, calls, rl_pc, rl_wake, stamps>>
    /\ UNCHANGED notRL

\* one caller issuing its acquire() calls one after another
OneCaller == {1}

\* the call_llm tasks run_all_models hands to asyncio.gather, one per model;
\* all of them go through the one module-level rate_limiter
Gathered == {1, 2, 3}


----------------------------------------------------------------------------
(* The turn loop of _run_tick (app/app.py) and with_backoff.               *)

MAX_TURNS == 4
BACKOFF_SLEEP == 60

\* what cm.generate_turn can raise: the two classes with_backoff names, and
\* any other exception
Exceptions == {"_ResourceExhaustedError", "ClientError", "RuntimeError"}


\* Retryable with a bare `except Exception`
Retryable_Any(exc) == exc \in Exceptions

\* except (_ResourceExhaustedError, ClientError)
Retryable(exc) == exc \in {"_ResourceExhaustedError", "ClientError"}

\* the text of a generated line; generate_turn_line returns None without one
Texts == {"hello", ""}
Lines == {<<>>} \cup {<<tx>> : tx \in Texts}

\* what safe_generate(call_gemini, prompt) hands wants_to_speak: the reply,
\* call_gemini's error text, or None after the last failed attempt
Responses == {"yes", "Yes.", "no", "Error generating response", None}

\* resp.strip().lower().startswith("y")
StartsWithY(resp) == resp \in {"yes", "Yes."}

\* wants_to_speak that takes every answer for a yes
wants_to_speak_Always(resp) == TRUE

\* return resp and resp.strip().lower().startswith("y")
wants_to_speak(resp) == Truthy(resp) /\ StartsWithY(resp)

ConvInit ==
    /\ c_pc = "wants"
    /\ c_answers = <<>>
    /\ turn = 0
    /\ dialogue = <<>>
    /\ speaker = "a"
    /\ b_pc = "idle"
    /\ b_slept = 0
    /\ b_trace = <<>>
    /\ b_outcome = "none"

\* Other without the swap
Other_Same(sp) == sp

\* speaker, listener = listener, speaker
Other(sp) == IF sp = "a" THEN "b" ELSE "a"

\* the rest of the loop body once with_backoff handed back `line`:
\* `if not line: break`, else append, swap and go to the next iteration
AfterLine(line) ==
    IF line = <<>>
    THEN /\ c_pc' = "done"
         /\ UNCHANGED <<turn, dialogue, speaker>>
    ELSE /\ dialogue' = Append(dialogue, [speaker |-> speaker, text |-> line[1]])
         /\ speaker' = Other(speaker)
         /\ turn' = turn + 1
         /\ c_pc' = IF turn + 1 < MAX_TURNS THEN "wants" ELSE "done"

\* wants_to_speak answered no (or its call failed): break
WantsNo ==
    /\ c_pc = "wants"
    /\ \E resp \in Responses :
        /\ ~wants_to_speak(resp)
        /\ c_answers' = Append(c_answers, resp)
    /\ c_pc' = "done"
    /\ UNCHANGED <<turn, dialogue, speaker, b_pc, b_slept, b_trace, b_outcome>>
    /\ UNCHANGED notConv

\* wants_to_speak answered yes: with_backoff awaits coro_fn for the first time
WantsYes ==
    /\ c_pc = "wants"
    /\ \E resp \in Responses :
        /\ wants_to_speak(resp)
        /\ c_answers' = Append(c_answers, resp)
    /\ c_pc' = "backoff"
    /\ b_pc' = "first"
    /\ b_slept' = 0
    /\ b_trace' = <<"call">>
    /\ b_outcome' = "none"
    /\ UNCHANGED <<turn, dialogue, speaker>>
    /\ UNCHANGED notConv

\* the first await returns
FirstReturns ==
    /\ c_pc = "backoff" /\ b_pc = "first"
    /\ \E line \in Lines :
        /\ AfterLine(line)
        /\ b_outcome' = IF line = <<>> THEN "returned None" ELSE "returned line"
    /\ b_trace' = Append(b_trace, "return")
    /\ b_pc' = "idle"
    /\ UNCHANGED b_slept
    /\ UNCHANGED c_answers
    /\ UNCHANGED notConv

\* the first await raises one of the two named classes: asyncio.sleep(60)
FirstRaisesRetryable ==
    /\ c_pc = "backoff" /\ b_pc = "first"
    /\ \E exc \in Exceptions :
        /\ Retryable(exc)
        /\ b_trace' = Append(b_trace, exc)
    /\ b_pc' = "sleeping"
    /\ UNCHANGED <<c_pc, turn, dialogue, speaker, b_slept, b_outcome>>
    /\ UNCHANGED c_answers
    /\ UNCHANGED notConv

\* the first await raises anything else: no except clause matches, the
\* exception leaves with_backoff and _run_tick
FirstRaisesOther ==
    /\ c_pc = "backoff" /\ b_pc = "first"
    /\ \E exc \in Exceptions :
        /\ ~Retryable(exc)
        /\ b_trace' = Append(b_trace, exc)
    /\ b_pc' = "idle"
    /\ b_outcome' = "raised"
    /\ c_pc' = "raised"
    /\ UNCHANGED <<turn, dialogue, speaker, b_slept>>
    /\ UNCHANGED c_answers
    /\ UNCHANGED notConv

\* the sleep is over: coro_fn is awaited a second time
SleepOver ==
    /\ c_pc = "backoff" /\ b_pc = "sleeping"
    /\ b_slept' = b_slept + BACKOFF_SLEEP
    /\ b_trace' = b_trace \o <<"sleep", "call">>
    /\ b_pc' = "retry"
    /\ UNCHANGED <<c_pc, turn, dialogue, speaker, b_outcome>>
    /\ UNCHANGED c_answers
    /\ UNCHANGED notConv

RetryReturns ==
    /\ c_pc = "backoff" /\ b_pc = "retry"
    /\ \E line \in Lines :
        /\ AfterLine(line)
        /\ b_outcome' = IF line = <<>> THEN "returned None" ELSE "returned line"
    /\ b_trace' = Append(b_trace, "return")
    /\ b_pc' = "idle"
    /\ UNCHANGED b_slept
    /\ UNCHANGED c_answers
    /\ UNCHANGED notConv

\* except Exception: return None
RetryRaises ==
    /\ c_pc = "backoff" /\ b_pc = "retry"
    /\ \E exc \in Exceptions : b_trace' = Append(b_trace, exc)
    /\ AfterLine(<<>>)
    /\ b_outcome' = "returned None"
    /\ b_pc' = "idle"
    /\ UNCHANGED b_slept
    /\ UNCHANGED c_answers
    /\ UNCHANGED notConv

\* the loop is over: _run_tick returns its result with the dialogue in it
TickReturns ==
    /\ c_pc = "done"
    /\ c_pc' = "returned"
    /\ UNCHANGED <<c_answers, turn, dialogue, speaker, b_pc, b_slept, b_trace, b_outcome>>
    /\ UNCHANGED notConv

----------------------------------------------------------------------------
(* safe_generate (app/src/brain.py).                                       *)

MaxRetries == 2

\* what the wrapped call can hand back or raise (subclasses of Exception)
SGValues == {"events", "no events"}
SGExceptions == {"ClientError", "RuntimeError", "TimeoutError"}
BaseDelays == {1, 2}

RECURSIVE Pow2(_)
Pow2(n) == IF n = 0 THEN 1 ELSE 2 * Pow2(n - 1)

\* base_delay * (2**attempt)
SleepDelay(base, attempt) == base * Pow2(attempt)

\* IsLastAttempt that never holds
IsLastAttempt_Never(attempt, retries) == attempt > retries

\* if attempt == retries
IsLastAttempt(attempt, retries) == attempt = retries

\* for attempt in range(retries + 1): is there a next iteration
InRange(attempt, retries) == attempt < retries + 1

SGInit ==
    /\ sg_retries \in 0..MaxRetries
    /\ sg_base_delay \in BaseDelays
    /\ sg_attempt = 0
    /\ sg_pc = "calling"
    /\ sg_trace = <<"call">>
    /\ sg_sleeps = <<>>
    /\ sg_result = <<>>

\* return await fn(*args, **kwargs)
SGReturns ==
    /\ sg_pc = "calling"
    /\ \E v \in SGValues : sg_result' = <<v>>
    /\ sg_trace' = Append(sg_trace, "return")
    /\ sg_pc' = "returned"
    /\ UNCHANGED <<sg_retries, sg_base_delay, sg_attempt, sg_sleeps>>
    /\ UNCHANGED notSG

\* except Exception, on the last attempt: return None
SGGivesUp ==
    /\ sg_pc = "calling"
    /\ IsLastAttempt(sg_attempt, sg_retries)
    /\ \E exc \in SGExceptions : sg_trace' = Append(sg_trace, exc)
    /\ sg_result' = <<None>>
    /\ sg_pc' = "returned"
    /\ UNCHANGED <<sg_retries, sg_base_delay, sg_attempt, sg_sleeps>>
    /\ UNCHANGED notSG

\* except Exception, before the last attempt: await asyncio.sleep(...)
SGBacksOff ==
    /\ sg_pc = "calling"
    /\ ~IsLastAttempt(sg_attempt, sg_retries)
    /\ \E exc \in SGExceptions : sg_trace' = Append(sg_trace, exc)
    /\ sg_sleeps' = Append(sg_sleeps, SleepDelay(sg_base_delay, sg_attempt))
    /\ sg_pc' = "sleeping"
    /\ UNCHANGED <<sg_retries, sg_base_delay, sg_attempt, sg_result>>
    /\ UNCHANGED notSG

\* the sleep is over: next iteration of the for loop, or the return None
\* after it
SGWakes ==
    /\ sg_pc = "sleeping"
    /\ sg_attempt' = sg_attempt + 1
    /\ IF InRange(sg_attempt + 1, sg_retries)
       THEN /\ sg_trace' = Append(sg_trace, "call")
            /\ sg_pc' = "calling"
            /\ UNCHANGED sg_result
       ELSE /\ sg_result' = <<None>>
            /\ sg_pc' = "returned"
            /\ UNCHANGED sg_trace
    /\ UNCHANGED <<sg_retries, sg_base_delay, sg_sleeps>>
    /\ UNCHANGED notSG

----------------------------------------------------------------------------
(* ConversationManager.store_turns (app/src/conversation_manager.py) with  *)
(* run_and_log and log_conv_memory (app/src/brain.py), called twice on one *)
(* manager.                                                                *)

StoreCalls == {1, 2}
Agents == {"a", "b"}

Contexts == {"tick", "lunch"}
Dialogues ==
    { <<>>,
      <<[speaker |-> "a", text |-> "hello"]>>,
      <<[speaker |-> "a", text |-> "hello"], [speaker |-> "b", text |-> "hi"]>>,
      <<[speaker |-> "a", text |-> ""]>> }

\* key = (context, tuple((t.get("speaker"), t.get("text")) for t in dialogue))
DedupKey(arg) ==
    <<arg.context, [i \in 1..Len(arg.dialogue) |->
                        <<arg.dialogue[i].speaker, arg.dialogue[i].text>>]>>

\* " ".join(text.strip() for t in dialogue).strip() is empty
ConvoTextEmpty(dlg) == \A i \in 1..Len(dlg) : dlg[i].text = ""

\* what summarize_dialogue hands back for a non-empty text
Summaries == {None, "gist"}

\* summary_text = (await summarize_dialogue(convo_text)) or convo_text
SummaryText(summary, dlg) ==
    IF Truthy(summary) THEN summary
    ELSE IF ConvoTextEmpty(dlg) THEN "" ELSE "convo"

\* the text of the importance agent's reply; None for a reply without text
ScoreReplies == {"7", "10", "0", "42", "seven", None}

\* part.text.strip().isdigit()
IsDigit(tx) == tx \in {"7", "10", "0", "42"}

\* int(part.text.strip())
IntOf(tx) == CASE tx = "7" -> 7 [] tx = "10" -> 10 [] tx = "0" -> 0 [] tx = "42" -> 42

\* score in run_and_log: <<>> for None
ScoreOf(reply) == IF IsDigit(reply) THEN <<IntOf(reply)>> ELSE <<>>

\* self._seen after a call that found the key new, when the key is never added
SeenAfterAdd_Forgets(s, key) == s

\* self._seen.add(key)
SeenAfterAdd(s, key) == s \cup {key}

StoreInit ==
    /\ st_pc = [c \in StoreCalls |-> "start"]
    /\ st_arg \in [StoreCalls -> [dialogue : Dialogues, context : Contexts]]
    /\ st_summary = [c \in StoreCalls |-> ""]
    /\ seen = {}
    /\ event_log = <<>>
    /\ agent_memory = [a \in Agents |-> <<>>]
    /\ memory_log = <<>>

\* lines 104-117: build event_log, append it to both memories and to the file
WriteEvent(c, score) ==
    LET ev == [key |-> DedupKey(st_arg[c]), importance |-> score]
    IN  /\ agent_memory' = [a \in Agents |-> Append(agent_memory[a], ev)]
        /\ event_log' = Append(event_log, ev)

\* `if not dialogue: return`
StoreNothing(c) ==
    /\ st_pc[c] = "start"
    /\ st_arg[c].dialogue = <<>>
    /\ st_pc' = [st_pc EXCEPT ![c] = "nothing"]
    /\ UNCHANGED <<st_arg, st_summary, seen, event_log, agent_memory, memory_log>>
    /\ UNCHANGED notStore

\* `if key in self._seen: return`
StoreDeduped(c) ==
    /\ st_pc[c] = "start"
    /\ st_arg[c].dialogue # <<>>
    /\ DedupKey(st_arg[c]) \in seen
    /\ st_pc' = [st_pc EXCEPT ![c] = "deduped"]
    /\ UNCHANGED <<st_arg, st_summary, seen, event_log, agent_memory, memory_log>>
    /\ UNCHANGED notStore

\* the key is new: mark it and await summarize_dialogue
StoreBegins(c) ==
    /\ st_pc[c] = "start"
    /\ st_arg[c].dialogue # <<>>
    /\ DedupKey(st_arg[c]) \notin seen
    /\ seen' = SeenAfterAdd(seen, DedupKey(st_arg[c]))
    /\ st_pc' = [st_pc EXCEPT ![c] = "summarizing"]
    /\ UNCHANGED <<st_arg, st_summary, event_log, agent_memory, memory_log>>
    /\ UNCHANGED notStore

\* summarize_dialogue returned; with an empty memory_text the scoring is
\* skipped and the event is written with importance None
StoreSummarized(c) ==
    /\ st_pc[c] = "summarizing"
    /\ \E summary \in Summaries :
        LET dlg == st_arg[c].dialogue
            text == SummaryText(IF ConvoTextEmpty(dlg) THEN None ELSE summary, dlg)
        IN  /\ st_summary' = [st_summary EXCEPT ![c] = text]
            /\ IF text = ""
               THEN /\ WriteEvent(c, <<>>)
                    /\ st_pc' = [st_pc EXCEPT ![c] = "stored"]
               ELSE /\ st_pc' = [st_pc EXCEPT ![c] = "scoring"]
                    /\ UNCHANGED <<event_log, agent_memory>>
    /\ UNCHANGED <<st_arg, seen, memory_log>>
    /\ UNCHANGED notStore

\* run_and_log returned (first attempt or retry): log_conv_memory when the
\* reply was a digit string, then the event is written
StoreScored(c) ==
    /\ st_pc[c] \in {"scoring", "retrying"}
    /\ \E reply \in ScoreReplies :
        LET score == ScoreOf(reply)
        IN  /\ memory_log' =
                IF score # <<>>
                THEN Append(memory_log, [importance |-> score[1], text |-> st_summary[c],
                                         key |-> DedupKey(st_arg[c])])
                ELSE memory_log
            /\ WriteEvent(c, score)
    /\ st_pc' = [st_pc EXCEPT ![c] = "stored"]
    /\ UNCHANGED <<st_arg, st_summary, seen>>
    /\ UNCHANGED notStore

\* run_and_log raised one of the two classes with_backoff names: sleep, retry
StoreScoreRetries(c) ==
    /\ st_pc[c] = "scoring"
    /\ \E exc \in Exceptions : Retryable(exc)
    /\ st_pc' = [st_pc EXCEPT ![c] = "retrying"]
    /\ UNCHANGED <<st_arg, st_summary, seen, event_log, agent_memory, memory_log>>
    /\ UNCHANGED notStore

\* the retry raised: with_backoff returns None, the event has importance None
StoreScoreFails(c) ==
    /\ st_pc[c] = "retrying"
    /\ WriteEvent(c, <<>>)
    /\ st_pc' = [st_pc EXCEPT ![c] = "stored"]
    /\ UNCHANGED <<st_arg, st_summary, seen, memory_log>>
    /\ UNCHANGED notStore

\* run_and_log raised another exception on the first attempt: it leaves
\* with_backoff and store_turns
StoreRaises(c) ==
    /\ st_pc[c] = "scoring"
    /\ \E exc \in Exceptions : ~Retryable(exc)
    /\ st_pc' = [st_pc EXCEPT ![c] = "raised"]
    /\ UNCHANGED <<st_arg, st_summary, seen, event_log, agent_memory, memory_log>>
    /\ UNCHANGED notStore

----------------------------------------------------------------------------
(* slot_at and next_slot (app/src/simulate.py) on schedules that may be    *)
(* unsorted, overlapping, or hold slots whose datetime_start does not      *)
(* parse.  Each slot carries its position as location, so that two slots   *)
(* of one schedule are never the same dict.                                *)

MaxSlots == 3

SlotStarts == {NoTime, 0, 15, 30}
SlotDurations == {15, 30}
LookupTimes == {0, 15, 29, 30, 45}

Schedules ==
    {[i \in 1..Len(q) |-> [datetime_start |-> q[i][1], duration_min |-> q[i][2],
                           location |-> i]] :
        q \in SeqsUpTo(SlotStarts \X SlotDurations, MaxSlots)}

\* the (slot, start, end) triple both functions return
WithBounds(found) ==
    IF found = <<>> THEN <<>>
    ELSE <<found[1], found[1].datetime_start, SlotEnd(found[1])>>

SlotInit ==
    /\ sl_pc = "ready"
    /\ sl_schedule \in Schedules
    /\ sl_time \in LookupTimes
    /\ sl_at = <<>>
    /\ sl_next = <<>>

\* simulate.py:410-411: both lookups for one time
LookUp ==
    /\ sl_pc = "ready"
    /\ sl_at' = WithBounds(slot_at(sl_schedule, sl_time))
    /\ sl_next' = WithBounds(next_slot(sl_schedule, sl_time))
    /\ sl_pc' = "done"
    /\ UNCHANGED <<sl_schedule, sl_time>>
    /\ UNCHANGED notSlot

----------------------------------------------------------------------------
(* _relevant_memories (app/src/brain.py).  Scores are in thousandths.  A   *)
(* memory is a record of the fields the score reads: importance (<<>> for  *)
(* a dict without the key, <<n>> otherwise), the age                       *)
(* in days of ts_last_accessed (NoTime when the timestamp does not parse), *)
(* and the cosine overlap of its text with a non-empty query; id is the    *)
(* identity of the dict.                                                   *)

MaxMems == 3

MemoryKinds ==
    { [importance |-> <<5>>, age_days |-> 0, overlap |-> 0],
      [importance |-> <<5>>, age_days |-> 45, overlap |-> 1000],
      [importance |-> <<10>>, age_days |-> NoTime, overlap |-> 0],
      [importance |-> <<>>, age_days |-> 15, overlap |-> 1000] }

Memories ==
    {[i \in 1..Len(q) |-> [id |-> i, importance |-> q[i].importance,
                           age_days |-> q[i].age_days, overlap |-> q[i].overlap]] :
        q \in SeqsUpTo(MemoryKinds, MaxMems)}

Min2(a, b) == IF a < b THEN a ELSE b
Max2(a, b) == IF a > b THEN a ELSE b

\* recency_score: max(0.0, 1.0 - min(days / 30.0, 1.0)); 0.5 when the
\* timestamp does not parse
recency_score(age) ==
    IF age = NoTime THEN 500
    ELSE Max2(0, 1000 - Min2((age * 1000) \div 30, 1000))

\* (importance * 0.4) + (rec * 0.3) + (relevance * 0.3), with
\* importance = float(m.get("importance", 0)) / 10.0 and relevance 0.0 for
\* an empty query
Score(m, query) ==
    LET importance == IF m.importance = <<>> THEN 0 ELSE m.importance[1] * 100
        relevance == IF query # "" THEN m.overlap ELSE 0
    IN  (importance * 4 + recency_score(m.age_days) * 3 + relevance * 3) \div 10

\* list.sort(reverse=True) done as an ascending sort followed by a reversal:
\* equal scores come out in reverse order
SortedDesc_TiesReversed(mems, query) ==
    LET n == Len(mems)
        place(i) == 1 + Cardinality({j \in 1..n :
                        \/ Score(mems[j], query) > Score(mems[i], query)
                        \/ (Score(mems[j], query) = Score(mems[i], query) /\ j > i)})
    IN  [p \in 1..n |-> mems[CHOOSE i \in 1..n : place(i) = p]]

\* scored.sort(key=lambda x: x[0], reverse=True): stable, equal scores keep
\* their order
SortedDesc(mems, query) ==
    LET n == Len(mems)
        place(i) == 1 + Cardinality({j \in 1..n :
                        \/ Score(mems[j], query) > Score(mems[i], query)
                        \/ (Score(mems[j], query) = Score(mems[i], query) /\ j < i)})
    IN  [p \in 1..n |-> mems[CHOOSE i \in 1..n : place(i) = p]]

\* scored[:limit]
Take(q, limit) == SubSeq(q, 1, Min2(limit, Len(q)))

RankInit ==
    /\ rk_pc = "ready"
    /\ rk_memory \in Memories
    /\ rk_query \in {"", "sam lunch"}
    /\ rk_limit \in 0..(MaxMems + 1)
    /\ rk_result = <<>>

Select ==
    /\ rk_pc = "ready"
    /\ rk_result' = Take(SortedDesc(rk_memory, rk_query), rk_limit)
    /\ rk_pc' = "done"
    /\ UNCHANGED <<rk_memory, rk_query, rk_limit>>
    /\ UNCHANGED notRank

----------------------------------------------------------------------------
(* detect_inherent_drift (app/src/utils/metrics.py).  A text is a sequence *)
(* of tokens and stands for their concatenation; the tokens are chosen so  *)
(* that a marker is a substring of the text exactly when its tokens occur  *)
(* in it one after the other.  A value read from the row is <<>> for None  *)
(* or a missing key and <<text>> otherwise.  Similarities and scores are   *)
(* in hundredths.                                                          *)

wandering_markers ==
    {<<"thinking", "about">>, <<"mentally">>, <<"reflecting", "on">>,
     <<"daydream">>, <<"wandering">>, <<"exploring">>}

\* str.lower(), token by token
Lower(t) ==
    LET LowerToken(w) ==
            CASE w = "Thinking" -> "thinking"
              [] w = "Daydream" -> "daydream"
              [] OTHER -> w
    IN  [i \in 1..Len(t) |-> LowerToken(t[i])]

\* w in summary_text
Occurs(w, t) ==
    \E i \in 1..Len(t) :
        /\ i + Len(w) - 1 <= Len(t)
        /\ SubSeq(t, i, i + Len(w) - 1) = w

\* the rows: topics and summaries that are missing, empty, plain, with a
\* marker in another case or inside a word, or with a marker's words apart
Rows ==
    LET TopicTexts == {<<>>, <<"coffee">>, <<"emails">>}
        SummaryTexts ==
            {<<>>, <<"serving", "customers">>, <<"Thinking", "about", "lunch">>,
             <<"Daydream", "ing">>, <<"about", "thinking">>}
        RowValues(T) == {<<>>} \cup {<<t>> : t \in T}
    IN  [plan_topic : RowValues(TopicTexts), action_topic : RowValues(TopicTexts),
         obs_summary : RowValues(SummaryTexts), act_summary : RowValues(SummaryTexts)]

\* t if t else ""
TextOrEmpty(v) == IF v = <<>> THEN <<>> ELSE v[1]

\* embed_texts: empty texts are dropped before the request, the others get
\* one vector each, in order; a vector is identified by the text it embeds
embed_texts(texts) == SelectSeq(texts, LAMBDA t : t # <<>>)

\* cosine_sim of two vectors: 1 for the vectors of one text (the 1e-8 in the
\* denominator is below the resolution), otherwise what the service gives
cosine_sim(a, b, other) == IF a = b THEN 100 ELSE other

\* Below with the comparison turned round
Below_Inverted(sim) == sim > 55

\* sim < 0.55
Below(sim) == sim < 55

empty_result ==
    [inherent_drift |-> FALSE, drift_score_inferred |-> 0, drift_type_inferred |-> "none",
     sim_plan_action |-> 0, sim_obs_action |-> 0]

\* the four texts, in the order they are embedded
RowTexts(row) ==
    <<TextOrEmpty(row.plan_topic), TextOrEmpty(row.action_topic),
      TextOrEmpty(row.obs_summary), TextOrEmpty(row.act_summary)>>

\* embed_texts is reached
Embeds(row) == \E i \in 1..4 : RowTexts(row)[i] # <<>>

detect_inherent_drift(row, s1, s2) ==
    LET texts == RowTexts(row)
        vecs == embed_texts(texts)
    IN  IF ~Embeds(row) \/ Len(vecs) # 4 THEN empty_result
        ELSE LET sim_plan_action == cosine_sim(vecs[1], vecs[2], s1)
                 sim_obs_act == cosine_sim(vecs[3], vecs[4], s2)
                 topic_drift == Below(sim_plan_action)
                 summary_drift == Below(sim_obs_act)
                 summary_text == Lower(TextOrEmpty(row.act_summary))
                 mental_drift == \E w \in wandering_markers : Occurs(w, summary_text)
                 is_drift == topic_drift \/ summary_drift \/ mental_drift
             IN  [inherent_drift |-> is_drift,
                  drift_score_inferred |-> 100 - Max2(sim_plan_action, sim_obs_act),
                  drift_type_inferred |->
                      IF ~is_drift THEN "none"
                      ELSE IF mental_drift THEN "internal"
                      ELSE IF topic_drift THEN "behavioral"
                      ELSE "attentional_leak",
                  sim_plan_action |-> sim_plan_action,
                  sim_obs_action |-> sim_obs_act]

DDInit ==
    /\ dd_pc = "ready"
    /\ dd_row \in Rows
    /\ dd_result = <<>>

\* detect_inherent_drift(row) returns
Detect ==
    /\ dd_pc = "ready"
    \* s1, s2: the similarities the embeddings give two different texts
    /\ \E s1, s2 \in {20, 54, 55, 90} :
        dd_result' = <<detect_inherent_drift(dd_row, s1, s2)>>
    /\ dd_pc' = "returned"
    /\ UNCHANGED dd_row
    /\ UNCHANGED notDD

\* embed_texts raises (no client, or the request fails); nothing catches it
DetectRaises ==
    /\ dd_pc = "ready"
    /\ Embeds(dd_row)
    /\ dd_pc' = "raised"
    /\ UNCHANGED <<dd_row, dd_result>>
    /\ UNCHANGED notDD

----------------------------------------------------------------------------
(* The serialization gate _llm_semaphore (app/src/brain.py) and the        *)
(* coroutines that pass through it: generate_turn_line, summarize_dialogue *)
(* and run_and_log, alone or as store_turns runs them (summarize_dialogue, *)
(* then run_and_log with a summary_override under with_backoff).           *)

GateTasks == {1, 2, 3}

\* asyncio.Semaphore(1)
SEM_INITIAL == 1

\* safe_generate(..., retries=2, ...)
GATE_RETRIES == 2

\* the first function of the task that reaches the gate
FirstFn(kind) == IF kind = "store_turns" THEN "summarize_dialogue" ELSE kind

\* the functions whose generation call goes through safe_generate
Guarded(fn) == fn \in {"generate_turn_line", "summarize_dialogue"}

\* HeldAfterScore with summarize_dialogue called inside the `async with` body
HeldAfterScore_Nested(h, c) == h

\* run_and_log: the `async with` body is the one await; it is left before the
\* score is read and before summarize_dialogue is called
HeldAfterScore(h, c) == h \ {c}

GateInit ==
    /\ g_pc = [c \in GateTasks |-> "start"]
    /\ g_kind \in [GateTasks ->
                    {"generate_turn_line", "summarize_dialogue", "run_and_log", "store_turns"}]
    /\ g_fn = [c \in GateTasks |-> ""]
    /\ g_attempt = [c \in GateTasks |-> 0]
    /\ g_retried = [c \in GateTasks |-> FALSE]
    /\ g_holds = {}
    /\ sem = SEM_INITIAL

\* the task reaches `async with _llm_semaphore` of its first function
GateRequest(c) ==
    /\ g_pc[c] = "start"
    /\ g_fn' = [g_fn EXCEPT ![c] = FirstFn(g_kind[c])]
    /\ g_pc' = [g_pc EXCEPT ![c] = "waiting"]
    /\ UNCHANGED <<g_kind, g_attempt, g_retried, g_holds, sem>>
    /\ UNCHANGED notGate

\* summarize_dialogue with a blank text returns None before the gate; in
\* store_turns memory_text is then empty and run_and_log is not called
SummarizeBlank(c) ==
    /\ g_pc[c] = "start"
    /\ FirstFn(g_kind[c]) = "summarize_dialogue"
    /\ g_pc' = [g_pc EXCEPT ![c] = "done"]
    /\ UNCHANGED <<g_kind, g_fn, g_attempt, g_retried, g_holds, sem>>
    /\ UNCHANGED notGate

\* Semaphore.acquire returns: the body is entered and the call starts
GateAcquire(c) ==
    /\ g_pc[c] = "waiting"
    /\ sem > 0
    /\ sem' = sem - 1
    /\ g_holds' = g_holds \cup {c}
    /\ g_attempt' = [g_attempt EXCEPT ![c] = 0]
    /\ g_pc' = [g_pc EXCEPT ![c] = "calling"]
    /\ UNCHANGED <<g_kind, g_fn, g_retried>>
    /\ UNCHANGED notGate

\* what the task does once summarize_dialogue or generate_turn_line has left
\* its `async with` body: store_turns goes on to run_and_log
AfterGuarded(c) ==
    IF g_kind[c] = "store_turns" /\ g_fn[c] = "summarize_dialogue"
    THEN /\ g_fn' = [g_fn EXCEPT ![c] = "run_and_log"]
         /\ g_pc' = [g_pc EXCEPT ![c] = "waiting"]
    ELSE /\ g_pc' = [g_pc EXCEPT ![c] = "done"]
         /\ UNCHANGED g_fn

\* the generation call of generate_turn_line or summarize_dialogue returns
GuardedReturns(c) ==
    /\ g_pc[c] = "calling"
    /\ Guarded(g_fn[c])
    /\ g_holds' = g_holds \ {c}
    /\ sem' = sem + 1
    /\ AfterGuarded(c)
    /\ UNCHANGED <<g_kind, g_attempt, g_retried>>
    /\ UNCHANGED notGate

\* it raises and safe_generate sleeps before the next attempt, inside the body
GuardedBacksOff(c) ==
    /\ g_pc[c] = "calling"
    /\ Guarded(g_fn[c])
    /\ g_attempt[c] < GATE_RETRIES
    /\ g_pc' = [g_pc EXCEPT ![c] = "backoff"]
    /\ UNCHANGED <<g_kind, g_fn, g_attempt, g_retried, g_holds, sem>>
    /\ UNCHANGED notGate

\* the sleep of safe_generate is over: next attempt
GuardedRetries(c) ==
    /\ g_pc[c] = "backoff"
    /\ g_attempt' = [g_attempt EXCEPT ![c] = g_attempt[c] + 1]
    /\ g_pc' = [g_pc EXCEPT ![c] = "calling"]
    /\ UNCHANGED <<g_kind, g_fn, g_retried, g_holds, sem>>
    /\ UNCHANGED notGate

\* it raises on the last attempt: safe_generate returns None, the function
\* returns None
GuardedGivesUp(c) ==
    /\ g_pc[c] = "calling"
    /\ Guarded(g_fn[c])
    /\ g_attempt[c] = GATE_RETRIES
    /\ g_holds' = g_holds \ {c}
    /\ sem' = sem + 1
    /\ AfterGuarded(c)
    /\ UNCHANGED <<g_kind, g_attempt, g_retried>>
    /\ UNCHANGED notGate

\* runner.run_debug of run_and_log returns; with a digit score and no
\* summary_override, run_and_log calls summarize_dialogue
ScoreReturns(c) ==
    /\ g_pc[c] = "calling"
    /\ g_fn[c] = "run_and_log"
    /\ g_holds' = HeldAfterScore(g_holds, c)
    /\ sem' = IF c \in g_holds' THEN sem ELSE sem + 1
    /\ \E digit, blank \in BOOLEAN :
        IF digit /\ ~blank /\ g_kind[c] = "run_and_log"
        THEN /\ g_fn' = [g_fn EXCEPT ![c] = "summarize_dialogue"]
             /\ g_pc' = [g_pc EXCEPT ![c] = "waiting"]
        ELSE /\ g_pc' = [g_pc EXCEPT ![c] = "done"]
             /\ UNCHANGED g_fn
    /\ UNCHANGED <<g_kind, g_attempt, g_retried>>
    /\ UNCHANGED notGate

\* runner.run_debug of run_and_log raises: the body is left by the exception.
\* Under with_backoff (store_turns) a first exception of the two classes is
\* followed by a sleep and a second call, any exception of the second call
\* ends with_backoff with None; any other exception leaves the task.
ScoreRaises(c) ==
    /\ g_pc[c] = "calling"
    /\ g_fn[c] = "run_and_log"
    /\ g_holds' = g_holds \ {c}
    /\ sem' = sem + 1
    /\ \E exc \in Exceptions :
        IF g_kind[c] = "store_turns" /\ g_retried[c]
        THEN /\ g_pc' = [g_pc EXCEPT ![c] = "done"]
             /\ UNCHANGED g_retried
        ELSE IF g_kind[c] = "store_turns" /\ Retryable(exc)
        THEN /\ g_pc' = [g_pc EXCEPT ![c] = "waiting"]
             /\ g_retried' = [g_retried EXCEPT ![c] = TRUE]
        ELSE /\ g_pc' = [g_pc EXCEPT ![c] = "raised"]
             /\ UNCHANGED g_retried
    /\ UNCHANGED <<g_kind, g_fn, g_attempt>>
    /\ UNCHANGED notGate

GateStep(c) ==
    \/ GateRequest(c) \/ SummarizeBlank(c) \/ GateAcquire(c)
    \/ GuardedReturns(c) \/ GuardedBacksOff(c) \/ GuardedRetries(c) \/ GuardedGivesUp(c)
    \/ ScoreReturns(c) \/ ScoreRaises(c)

----------------------------------------------------------------------------
(* Specifications.  Each runs one component from its initial states while  *)
(* the other components are not running.                                   *)

SimIdle ==
    /\ pc = "idle" /\ error = "" /\ steps = 0 /\ tick = 0 /\ current_time = 0
    /\ last_action_result = <<>> /\ ctx = <<>> /\ gen = <<>> /\ orpda_out = <<>>
    /\ obs = EmptyBlock /\ ref = EmptyBlock /\ plan = EmptyBlock
    /\ drift = EmptyDrift /\ action_result = EmptyBlock
    /\ agent_current_action = <<>> /\ memory_cache_len = 0 /\ session_log = <<>>

MergeIdle ==
    /\ m_pc = "idle" /\ m_ctx = [current_slot |-> Absent]
    /\ events = <<>> /\ m_result = <<>> /\ m_error = ""

RLIdle ==
    /\ rate = 1 /\ now = 0 /\ calls = <<>> /\ stamps = <<>>
    /\ rl_pc = [c \in OneCaller |-> "off"] /\ rl_wake = [c \in OneCaller |-> 0]

ConvIdle ==
    /\ c_pc = "idle" /\ c_answers = <<>> /\ turn = 0 /\ dialogue = <<>> /\ speaker = "a"
    /\ b_pc = "idle" /\ b_slept = 0 /\ b_trace = <<>> /\ b_outcome = "none"

SGIdle ==
    /\ sg_pc = "idle" /\ sg_retries = 0 /\ sg_base_delay = 0 /\ sg_attempt = 0
    /\ sg_trace = <<>> /\ sg_sleeps = <<>> /\ sg_result = <<>>

StoreIdle ==
    /\ st_pc = [c \in StoreCalls |-> "idle"]
    /\ st_arg = [c \in StoreCalls |-> [dialogue |-> <<>>, context |-> ""]]
    /\ st_summary = [c \in StoreCalls |-> ""]
    /\ seen = {} /\ event_log = <<>> /\ memory_log = <<>>
    /\ agent_memory = [a \in Agents |-> <<>>]

SlotIdle ==
    /\ sl_pc = "idle" /\ sl_schedule = <<>> /\ sl_time = 0 /\ sl_at = <<>> /\ sl_next = <<>>

RankIdle ==
    /\ rk_pc = "idle" /\ rk_memory = <<>> /\ rk_query = "" /\ rk_limit = 0 /\ rk_result = <<>>

DDIdle == dd_pc = "idle" /\ dd_row = <<>> /\ dd_result = <<>>

GateIdle ==
    /\ g_pc = [c \in GateTasks |-> "idle"] /\ g_kind = [c \in GateTasks |-> ""]
    /\ g_fn = [c \in GateTasks |-> ""] /\ g_attempt = [c \in GateTasks |-> 0]
    /\ g_retried = [c \in GateTasks |-> FALSE] /\ g_holds = {} /\ sem = 1

LateIdle == DDIdle /\ GateIdle

MoreIdle == SGIdle /\ StoreIdle /\ SlotIdle /\ RankIdle /\ LateIdle

\* run_simulation
Init == SimInit /\ MergeIdle /\ RLIdle /\ ConvIdle /\ MoreIdle

Next ==
    \/ BeginTick \/ OrpdaReturns \/ NormalizeRaises \/ OrpdaRaises
    \/ MemoryStreamRaises \/ SessionLogRaises \/ Advance \/ LoopExit

Spec == Init /\ [][Next]_vars

\* run_orpda_cycle
InitMerge == MergeInit /\ SimIdle /\ RLIdle /\ ConvIdle /\ MoreIdle

NextMerge == RunnerReturns \/ MergeRaises \/ FallbackRaises

SpecMerge == InitMerge /\ [][NextMerge]_vars

\* RateLimiter with one caller
InitRL == RLInit(OneCaller) /\ SimIdle /\ MergeIdle /\ ConvIdle /\ MoreIdle

NextRL == (\E c \in OneCaller : AcquireNoWait(c) \/ AcquireWait(c) \/ Wake(c)) \/ Pass

SpecRL == InitRL /\ [][NextRL]_vars

\* RateLimiter.acquire called by the gathered tasks, interleaved at the await
InitRLMany == RLInit(Gathered) /\ SimIdle /\ MergeIdle /\ ConvIdle /\ MoreIdle

NextRLMany == (\E c \in Gathered : AcquireNoWait(c) \/ AcquireWait(c) \/ Wake(c)) \/ Pass

SpecRLMany == InitRLMany /\ [][NextRLMany]_vars

\* the turn loop of _run_tick
InitConv == ConvInit /\ SimIdle /\ MergeIdle /\ RLIdle /\ MoreIdle

NextConv ==
    \/ WantsNo \/ WantsYes
    \/ FirstReturns \/ FirstRaisesRetryable \/ FirstRaisesOther
    \/ SleepOver \/ RetryReturns \/ RetryRaises
    \/ TickReturns

SpecConv == InitConv /\ [][NextConv]_vars

\* the same with the event loop running _run_tick as long as it can go on
SpecConvLive == InitConv /\ [][NextConv]_vars /\ WF_vars(NextConv)

OldIdle == SimIdle /\ MergeIdle /\ RLIdle /\ ConvIdle

\* safe_generate
InitSG == SGInit /\ OldIdle /\ StoreIdle /\ SlotIdle /\ RankIdle /\ LateIdle

NextSG == SGReturns \/ SGGivesUp \/ SGBacksOff \/ SGWakes

SpecSG == InitSG /\ [][NextSG]_vars

\* two calls of store_turns on one manager, in any interleaving
InitStore == StoreInit /\ OldIdle /\ SGIdle /\ SlotIdle /\ RankIdle /\ LateIdle

NextStore ==
    \E c \in StoreCalls :
        \/ StoreNothing(c) \/ StoreDeduped(c) \/ StoreBegins(c) \/ StoreSummarized(c)
        \/ StoreScored(c) \/ StoreScoreRetries(c) \/ StoreScoreFails(c) \/ StoreRaises(c)

SpecStore == InitStore /\ [][NextStore]_vars

\* slot_at and next_slot
InitSlot == SlotInit /\ OldIdle /\ SGIdle /\ StoreIdle /\ RankIdle /\ LateIdle

NextSlot == LookUp

SpecSlot == InitSlot /\ [][NextSlot]_vars

\* _relevant_memories
InitRank == RankInit /\ OldIdle /\ SGIdle /\ StoreIdle /\ SlotIdle /\ LateIdle

NextRank == Select

SpecRank == InitRank /\ [][NextRank]_vars

\* detect_inherent_drift on one row
InitDD == DDInit /\ OldIdle /\ SGIdle /\ StoreIdle /\ SlotIdle /\ RankIdle /\ GateIdle

NextDD == Detect \/ DetectRaises

SpecDD == InitDD /\ [][NextDD]_vars

\* the coroutines at the gate, interleaved at their awaits; the event loop
\* runs every task that can take a step, and every call comes back
InitGate == GateInit /\ OldIdle /\ SGIdle /\ StoreIdle /\ SlotIdle /\ RankIdle /\ DDIdle

NextGate == \E c \in GateTasks : GateStep(c)

SpecGate == InitGate /\ [][NextGate]_vars /\ \A c \in GateTasks : WF_vars(GateStep(c))

----------------------------------------------------------------------------
(* Properties of run_simulation (specification Spec)                       *)

\* the slots of the schedule whose window holds the tick's simulated time
ActiveSlots ==
    {i \in 1..Len(Schedule) :
        /\ Schedule[i].datetime_start # NoTime
        /\ Schedule[i].datetime_start <= current_time
        /\ current_time < Schedule[i].datetime_start + Schedule[i].duration_min}

\* the drift decision as the generation service returned it
RawDrift == gen[1].drift_decision
RawAction == gen[1].action_result

RawOff ==
    \/ RawDrift.should_drift \in {Absent, None, "false"}
    \/ RawDrift.drift_intensity \in {Absent, None}
    \/ RawDrift.drift_intensity \in {"0", "-0.3"}

RawOn == RawDrift.should_drift = "true" /\ RawDrift.drift_intensity = "0.7"

\* C1: on every normalized tick whose returned drift decision has a falsy
\* should_drift or a missing, zero or negative drift_intensity, the drift
\* decision ends with should_drift false, drift_type "none", drift_topic ""
\* and drift_intensity 0, and the action result with drift_type "none" and an
\* empty drift_topic.
C1_DriftOffNormalForm ==
    (pc = "sleep" /\ RawOff) =>
        /\ drift.should_drift = "false"
        /\ drift.drift_type = "none"
        /\ drift.drift_topic = ""
        /\ drift.drift_intensity = "0"
        /\ action_result.drift_type = "none"
        /\ action_result.drift_topic = ""

C1_Witness ==
    /\ pc = "sleep" /\ tick = 1
    /\ RawDrift.should_drift = "true" /\ RawDrift.drift_intensity = "0"
    /\ RawDrift.drift_type = "behavioral" /\ RawDrift.drift_topic = "window shopping"
    /\ RawAction.drift_type = "behavioral"
    /\ drift.drift_type = "none" /\ action_result.drift_topic = ""

\* C2: on every normalized tick whose drift_type is none, internal or
\* attentional_leak and whose simulated time lies in a slot's window, the
\* action result has the slot's location and action.
C2_ScheduleAdherence ==
    (pc = "sleep" /\ drift.drift_type \in {"none", "internal", "attentional_leak"}) =>
        \A i \in ActiveSlots :
            /\ action_result.location = Schedule[i].location
            /\ action_result.action = Schedule[i].action

C2_Witness ==
    /\ pc = "sleep" /\ tick = 1 /\ ActiveSlots # {}
    /\ drift.drift_type = "internal" /\ drift.should_drift = "true"
    /\ "action_result" \in gen[1].present /\ RawAction.location = "park"
    /\ "plan" \in gen[1].present /\ gen[1].plan.location = "library"
    /\ action_result.location = "home"

\* C3: on the first tick (no prior action result) with an active slot, the
\* observation, the plan and the action result have the slot's location and
\* action, and the slot's notes (its action when the notes are empty) as
\* topic, under every drift decision.
C3_FirstTickAlignment ==
    (pc = "sleep" /\ ctx[1].last_action_result = <<>>) =>
        \A i \in ActiveSlots :
            LET slot == Schedule[i]
                tp == IF slot.notes # "" THEN slot.notes ELSE slot.action
            IN  \A b \in {obs, plan, action_result} :
                    b.location = slot.location /\ b.action = slot.action /\ b.topic = tp

C3_Witness ==
    /\ pc = "sleep" /\ tick = 0 /\ current_time = 30
    /\ RawOn /\ drift.drift_type = "behavioral"
    /\ "action_result" \in gen[1].present /\ RawAction.action = "stroll"
    /\ action_result.action = "rest" /\ action_result.topic = "rest"
    /\ obs.location = "home"

\* C4 as claimed: on any normalized tick with an active slot where the drift
\* decision is on and behavioral and the proposed action differs from the
\* slot's, the action result keeps the proposed action.
C4_BehavioralOverrideAnyTick ==
    (/\ pc = "sleep" /\ RawOn /\ RawDrift.drift_type = "behavioral"
     /\ "action_result" \in gen[1].present /\ RawAction.action # Absent) =>
        \A i \in ActiveSlots :
            RawAction.action # Schedule[i].action =>
                /\ action_result.action = RawAction.action
                /\ action_result.action # Schedule[i].action

\* C4 as amended: the same on every tick but the first of a run.
C4_BehavioralOverride ==
    (/\ pc = "sleep" /\ RawOn /\ RawDrift.drift_type = "behavioral"
     /\ ctx[1].last_action_result # <<>>
     /\ "action_result" \in gen[1].present /\ RawAction.action # Absent) =>
        \A i \in ActiveSlots :
            RawAction.action # Schedule[i].action =>
                /\ action_result.action = RawAction.action
                /\ action_result.action # Schedule[i].action

C4_Witness ==
    /\ pc = "sleep" /\ tick = 1 /\ ActiveSlots # {}
    /\ RawOn /\ RawDrift.drift_type = "behavioral"
    /\ "plan" \in gen[1].present /\ gen[1].plan.action = "read"
    /\ RawAction.action = "stroll" /\ action_result.action = "stroll"
    /\ action_result.location = "park"

\* C5: after normalization every sub-result the tick's result holds has
\* datetime_start equal to the simulated time and duration_min equal to 15.
C5_AuthoritativeTime ==
    pc = "sleep" =>
        \A k \in orpda_out[1].present :
            /\ orpda_out[1][k].datetime_start = current_time
            /\ orpda_out[1][k].duration_min = 15

\* C7: a tick in which the generation service raised does not end
\* run_simulation with that exception.
C7_GenerationFailureDoesNotAbort ==
    ~(pc = "raised" /\ error = "GenerationError")

----------------------------------------------------------------------------
(* Properties of run_orpda_cycle (specification SpecMerge)                 *)

\* the known keys some payload that parsed to a JSON object carries
Supplied(evs) ==
    {k \in Keys : \E i \in 1..Len(evs) :
        /\ evs[i].kind = "object" /\ evs[i].fence # "inline"
        /\ evs[i].body[k] # Absent}

\* C6: run_orpda_cycle raises on no sequence of payloads, and returns exactly
\* the keys that some parsed payload supplied.
C6_ParseFailureRecovery ==
    m_pc \in {"returned", "raised"} =>
        /\ m_pc = "returned"
        /\ m_result[1].present = Supplied(events)

----------------------------------------------------------------------------
(* Properties of RateLimiter.acquire with one caller (specification SpecRL) *)

\* C8: no window of 60 seconds holds more than `rate` recorded timestamps.
C8_RateBound ==
    \A i \in 1..Len(stamps) :
        Cardinality({k \in 1..Len(stamps) :
                        stamps[i] <= stamps[k] /\ stamps[k] < stamps[i] + 600}) <= rate

C8_Witness ==
    /\ rate = 2 /\ Len(stamps) = 4
    /\ stamps[2] = stamps[1]
    /\ stamps[3] = stamps[1] + 601
    /\ stamps[4] = stamps[3]

----------------------------------------------------------------------------
(* Properties of with_backoff (specification SpecConv)                     *)

\* C9: with_backoff hands its caller a result or None and never an exception.
C9_NeverRaises == b_outcome # "raised"

NumCalls(tr) == Cardinality({i \in 1..Len(tr) : tr[i] = "call"})

\* C10: the wrapped call is awaited at most twice; a second time only after
\* the first raised one of the two named classes and 60 seconds were slept;
\* a first await that returns ends the call with no sleep and no second await.
C10_RetryOnce ==
    /\ NumCalls(b_trace) <= 2
    /\ NumCalls(b_trace) = 2 =>
        /\ Len(b_trace) >= 4
        /\ b_trace[2] \in {"_ResourceExhaustedError", "ClientError"}
        /\ b_trace[3] = "sleep" /\ b_trace[4] = "call"
        /\ b_slept = 60
    /\ (Len(b_trace) >= 2 /\ b_trace[2] = "return") =>
        /\ Len(b_trace) = 2
        /\ b_slept = 0

C10_Witness ==
    /\ b_trace = <<"call", "ClientError", "sleep", "call", "return">>
    /\ b_outcome = "returned line" /\ Len(dialogue) = 2

----------------------------------------------------------------------------
(* Properties of safe_generate (specification SpecSG)                      *)

SGCalls == Cardinality({i \in 1..Len(sg_trace) : sg_trace[i] = "call"})
SGFailures == Cardinality({i \in 1..Len(sg_trace) : sg_trace[i] \in SGExceptions})

\* C11: safe_generate awaits the wrapped call at most retries + 1 times (3 by
\* default); it returns the value of the first await that does not raise;
\* the i-th sleep lasts base_delay * 2^(i-1) (2 s then 4 s by default) and
\* comes between two awaits, none after the last; it returns None exactly
\* when every one of the retries + 1 awaits raised; it never raises.
C11_BoundedRetry ==
    /\ SGCalls <= sg_retries + 1
    /\ sg_retries = 2 => SGCalls <= 3
    /\ \A i \in 1..Len(sg_sleeps) : sg_sleeps[i] = sg_base_delay * 2^(i - 1)
    /\ (sg_retries = 2 /\ sg_base_delay = 2) =>
            sg_sleeps \in {<<>>, <<2>>, <<2, 4>>}
    /\ sg_pc = "calling" => Len(sg_sleeps) = SGCalls - 1
    /\ sg_pc = "returned" =>
        /\ Len(sg_sleeps) = SGCalls - 1
        /\ sg_result # <<>>
        /\ sg_result[1] # None =>
            /\ sg_result[1] \in SGValues
            /\ sg_trace[Len(sg_trace)] = "return"
            /\ SGFailures = SGCalls - 1
        /\ sg_result[1] = None =>
            /\ SGCalls = sg_retries + 1
            /\ SGFailures = SGCalls
    /\ sg_pc \in {"idle", "calling", "sleeping", "returned"}

C11_Witness ==
    /\ sg_retries = 2 /\ sg_base_delay = 2
    /\ sg_pc = "returned" /\ sg_result = <<None>>
    /\ sg_sleeps = <<2, 4>> /\ SGCalls = 3

----------------------------------------------------------------------------
(* Properties of store_turns (specification SpecStore)                     *)

EventsFor(key) == Cardinality({i \in 1..Len(event_log) : event_log[i].key = key})
MemoriesFor(a, key) ==
    Cardinality({i \in 1..Len(agent_memory[a]) : agent_memory[a][i].key = key})

\* C12: when store_turns is called twice on one manager with the same
\* context and the same non-empty turn list, one after the other or
\* interleaved, the event log and each participant's memory never hold more
\* than one entry for the dialogue, and hold exactly one once both calls
\* have returned; the call that finds the key seen writes nothing.
C12_DedupIdempotence ==
    (st_arg[1] = st_arg[2] /\ st_arg[1].dialogue # <<>>) =>
        LET key == DedupKey(st_arg[1])
        IN  /\ EventsFor(key) <= 1
            /\ \A a \in Agents : MemoriesFor(a, key) <= 1
            /\ Len(event_log) = EventsFor(key)
            /\ (\A c \in StoreCalls : st_pc[c] \in {"stored", "deduped"}) =>
                /\ EventsFor(key) = 1
                /\ \A a \in Agents : MemoriesFor(a, key) = 1
                /\ \E c \in StoreCalls : st_pc[c] = "deduped"

C12_Witness ==
    /\ st_arg[1] = st_arg[2] /\ Len(st_arg[1].dialogue) = 2
    /\ st_pc[2] = "stored" /\ st_pc[1] = "deduped"
    /\ Len(event_log) = 1 /\ Len(agent_memory["a"]) = 1 /\ Len(agent_memory["b"]) = 1

\* C20: every entry of the memory log has an integer importance from 1 to 10.
C20_ImportanceRange ==
    \A i \in 1..Len(memory_log) : memory_log[i].importance \in 1..10

----------------------------------------------------------------------------
(* Properties of the turn loop of _run_tick (SpecConv, SpecConvLive)       *)

SaysYes(resp) == resp \in {"yes", "Yes."}
LoopOver == c_pc \in {"done", "raised", "returned"}

C13_State ==
    /\ Len(dialogue) <= 4
    /\ Len(c_answers) <= 4
    /\ \A i \in 1..Len(c_answers) :
        ~SaysYes(c_answers[i]) =>
            /\ i = Len(c_answers)
            /\ LoopOver
            /\ Len(dialogue) = i - 1
    /\ (c_pc = "wants" /\ turn > 0) => b_outcome = "returned line"
    /\ b_outcome = "returned None" => (LoopOver /\ Len(dialogue) = Len(c_answers) - 1)

C13_Step == LoopOver => (LoopOver' /\ dialogue' = dialogue /\ c_answers' = c_answers)

\* C13: the turn loop ends with at most MAX_TURNS (4) turns; it ends in the
\* turn in which the speaker's answer is not a yes (a no, an error text or a
\* failed call) or in which with_backoff hands back no line; once it has
\* ended no turn is appended.
C13_BoundedSpeakGated == []C13_State /\ [][C13_Step]_vars

C13_Witness ==
    /\ c_pc = "returned" /\ Len(dialogue) = 2
    /\ c_answers = <<"yes", "Yes.", "Error generating response">>

\* C14: turn i of the dialogue (from 0) is spoken by the first agent when i
\* is even and by the second when i is odd.
C14_TurnAlternation ==
    \A i \in 1..Len(dialogue) :
        dialogue[i].speaker = IF i % 2 = 1 THEN "a" ELSE "b"

C14_Witness ==
    /\ Len(dialogue) = 4 /\ c_pc = "returned"
    /\ dialogue[1].speaker = "a" /\ dialogue[2].speaker = "b"
    /\ dialogue[3].speaker = "a" /\ dialogue[4].speaker = "b"

\* C15: whenever the turn loop has finished with at least one turn, a
\* DialogueEvent and one memory entry per participant are eventually
\* persisted for the dialogue.
C15_PersistOnCompletion ==
    (c_pc = "done" /\ Len(dialogue) >= 1) ~>
        (Len(event_log) >= 1 /\ \A a \in Agents : Len(agent_memory[a]) >= 1)

----------------------------------------------------------------------------
(* More properties of run_simulation (specification Spec)                  *)

RawPlan == gen[1].plan

----------------------------------------------------------------------------
(* Properties of slot_at and next_slot (specification SpecSlot)            *)

Containing ==
    {i \in 1..Len(sl_schedule) :
        /\ sl_schedule[i].datetime_start # NoTime
        /\ sl_schedule[i].datetime_start <= sl_time
        /\ sl_time < sl_schedule[i].datetime_start + sl_schedule[i].duration_min}

Later ==
    {i \in 1..Len(sl_schedule) :
        /\ sl_schedule[i].datetime_start # NoTime
        /\ sl_schedule[i].datetime_start > sl_time}

\* C17: slot_at returns none exactly when no slot with a parsable start
\* contains the time; otherwise it returns the first containing slot in list
\* order, with that slot's start and its start plus duration_min.
C17_SlotAtFirstMatch ==
    sl_pc = "done" =>
        /\ sl_at = <<>> <=> Containing = {}
        /\ sl_at # <<>> =>
            \E i \in Containing :
                /\ \A j \in Containing : i <= j
                /\ sl_at[1] = sl_schedule[i]
                /\ sl_at[2] = sl_schedule[i].datetime_start
                /\ sl_at[3] = sl_schedule[i].datetime_start + sl_schedule[i].duration_min

C17_Witness ==
    /\ sl_pc = "done" /\ Len(sl_schedule) = 3 /\ sl_time = 29
    /\ sl_schedule[1].datetime_start = NoTime
    /\ Containing = {2, 3}
    /\ sl_schedule[2].datetime_start = 15 /\ sl_schedule[3].datetime_start = 0
    /\ sl_at = <<sl_schedule[2], 15, 30>>

\* C18: next_slot returns none exactly when no slot starts after the time;
\* otherwise it returns a slot that starts after the time with no slot
\* starting in between, the earliest in list order among equal starts; it is
\* never the slot slot_at returns for the same time.
C18_NextSlotEarliest ==
    sl_pc = "done" =>
        /\ sl_next = <<>> <=> Later = {}
        /\ sl_next # <<>> =>
            /\ \E i \in Later :
                /\ sl_next[1] = sl_schedule[i]
                /\ sl_next[2] = sl_schedule[i].datetime_start
                /\ sl_next[2] > sl_time
                /\ \A j \in Later :
                    /\ sl_schedule[j].datetime_start >= sl_schedule[i].datetime_start
                    /\ sl_schedule[j].datetime_start = sl_schedule[i].datetime_start => i <= j
            /\ sl_at # <<>> => sl_next[1] # sl_at[1]

C18_Witness ==
    /\ sl_pc = "done" /\ Len(sl_schedule) = 3 /\ sl_time = 0
    /\ sl_schedule[1].datetime_start = 30
    /\ sl_schedule[2].datetime_start = 15
    /\ sl_schedule[3].datetime_start = 15
    /\ sl_next[1] = sl_schedule[2] /\ sl_next[2] = 15

----------------------------------------------------------------------------
(* Properties of _relevant_memories (specification SpecRank)               *)

ScoreOfEntry(m) == Score(m, rk_query)

C19_State ==
    rk_pc = "done" =>
        LET n == Len(rk_result)
            chosen == {rk_result[p].id : p \in 1..n}
        IN  /\ n = IF rk_limit < Len(rk_memory) THEN rk_limit ELSE Len(rk_memory)
            /\ \A p \in 1..n : rk_result[p] = rk_memory[rk_result[p].id]
            /\ Cardinality(chosen) = n
            /\ \A p \in 1..n, r \in 1..n :
                p < r =>
                    /\ ScoreOfEntry(rk_result[p]) >= ScoreOfEntry(rk_result[r])
                    /\ ScoreOfEntry(rk_result[p]) = ScoreOfEntry(rk_result[r]) =>
                            rk_result[p].id < rk_result[r].id
            /\ \A i \in 1..Len(rk_memory) :
                i \notin chosen =>
                    \A p \in 1..n :
                        /\ ScoreOfEntry(rk_memory[i]) <= ScoreOfEntry(rk_result[p])
                        /\ ScoreOfEntry(rk_memory[i]) = ScoreOfEntry(rk_result[p]) =>
                                rk_result[p].id < i

\* C19: _relevant_memories returns min(limit, number of memories) entries of
\* the memory list, in non-increasing score order, entries of equal score in
\* their order in the list; no entry left out has a higher score than an
\* entry returned; the memory list and its entries are left as they were.
C19_RankerSelection == []C19_State /\ [][rk_memory' = rk_memory]_vars

C19_Witness ==
    /\ rk_pc = "done" /\ rk_query # "" /\ rk_limit = 2 /\ Len(rk_memory) = 3
    /\ ScoreOfEntry(rk_memory[1]) = 450
    /\ ScoreOfEntry(rk_memory[2]) = 500 /\ ScoreOfEntry(rk_memory[3]) = 500
    /\ rk_memory[2] # [rk_memory[3] EXCEPT !.id = 2]
    /\ rk_result = <<rk_memory[2], rk_memory[3]>>


----------------------------------------------------------------------------
(* Further properties of run_simulation (specification Spec)               *)

\* C27: on every normalized tick whose returned drift decision is off, the
\* normalized drift decision has drift_action "continue" and an empty
\* justification and potential_recovery, whatever the generation service
\* returned in those fields.
C27_DriftOffClearsSideFields ==
    (pc = "sleep" /\ RawOff) =>
        /\ drift.drift_action = "continue"
        /\ drift.justification = ""
        /\ drift.potential_recovery = ""

\* the blocks of a tick other than the action result, as locals and as logged
OtherBlocks ==
    {obs, ref, plan, drift,
     orpda_out[1].observation, orpda_out[1].reflection, orpda_out[1].plan,
     orpda_out[1].drift_decision}

C29_State ==
    /\ pc = "await_orpda" =>
        /\ ctx[1].last_action_result = last_action_result
        /\ tick = 0 => ctx[1].last_action_result = <<>>
        /\ tick >= 1 =>
            /\ ctx[1].last_action_result # <<>>
            /\ ctx[1].last_action_result[1].next_datetime = ctx[1].current_datetime
            /\ ctx[1].current_datetime = current_time
    /\ pc = "sleep" =>
        /\ last_action_result = <<action_result>>
        /\ action_result.next_datetime = current_time + MINUTES_PER_STEP
        /\ \A b \in OtherBlocks : b.next_datetime = NoTime

C29_Step ==
    /\ (pc = "sleep" /\ pc' = "loop") =>
        /\ last_action_result' = <<action_result>>
        /\ current_time' = action_result.next_datetime
    /\ (pc = "loop" /\ pc' = "await_orpda") =>
        ctx'[1].last_action_result = last_action_result

\* C29: the context of tick 0 has last_action_result null; the context of
\* every later tick has as last_action_result the normalized action result of
\* the tick before, whose next_datetime is the simulated time of the tick; and
\* no other block of a tick, as a local or as logged, carries a next_datetime.
C29_ActionResultChains == []C29_State /\ [][C29_Step]_vars

C29_Witness ==
    /\ pc = "sleep" /\ tick = 1
    /\ gen[1].reflection.next_datetime # NoTime
    /\ ctx[1].last_action_result # <<>>
    /\ ctx[1].last_action_result[1].next_datetime = current_time
    /\ action_result.next_datetime = current_time + MINUTES_PER_STEP

\* C30: on every logged tick the plan, drift_decision and action_result of the
\* session-log entry are the normalized records the tick computed and carries
\* forward, also when the generation service supplied no such block.
C30_LogHoldsNormalized ==
    pc = "sleep" =>
        /\ {"plan", "drift_decision", "action_result"} \subseteq orpda_out[1].present
        /\ orpda_out[1].plan = plan
        /\ orpda_out[1].drift_decision = drift
        /\ orpda_out[1].action_result = action_result
        /\ last_action_result = <<orpda_out[1].action_result>>

C23_State ==
    /\ Len(session_log) <= steps
    /\ pc = "loop" => tick <= steps
    /\ \E start \in StartTimes :
        /\ current_time = start + MINUTES_PER_STEP * tick
        /\ \A i \in 1..Len(session_log) :
            session_log[i] = <<i - 1, start + MINUTES_PER_STEP * (i - 1)>>
    /\ pc \in {"loop", "await_orpda"} /\ error = "" => Len(session_log) = tick
    /\ pc = "sleep" => Len(session_log) = tick + 1
    /\ pc = "done" => Len(session_log) = steps /\ tick = steps /\ error = ""

C23_Step ==
    /\ Len(session_log') \in {Len(session_log), Len(session_log) + 1}
    /\ SubSeq(session_log', 1, Len(session_log)) = session_log
    /\ pc = "done" => pc' = "done"

\* C23: a run of n steps in which no call fails ends in the loop's exit with
\* exactly n session-log entries, entry i being that of tick i at simulated
\* time start + 15 i; entries are appended one per tick, in order, and an
\* appended entry is never changed or removed.
C23_SequentialTicks == []C23_State /\ [][C23_Step]_vars

C23_Witness ==
    /\ pc = "done" /\ error = "" /\ steps >= 2
    /\ Len(session_log) = steps
    /\ session_log[steps][1] = steps - 1

\* C22: an I/O failure while appending the memory-stream log or the session
\* log during a tick does not end the run.
C22_LogFailureDoesNotAbort ==
    ~(pc = "raised" /\ error \in {"OSError:memory_stream", "OSError:session_log"})


----------------------------------------------------------------------------
(* Further properties of run_orpda_cycle (specification SpecMerge)         *)

\* the payloads, in event and part order, that parsed and hold key k
Carrying(k) == {i \in 1..Len(events) : Merges(events[i]) /\ events[i].body[k] # Absent}

\* the value of key k in the last payload that holds it
LastValue(k) ==
    events[CHOOSE i \in Carrying(k) : \A j \in Carrying(k) : j <= i].body[k]

\* C24 as stated: for each of the five keys that some parsed payload holds,
\* run_orpda_cycle returns the key with the value of the last such payload.
C24_LatestPassWinsAnyValue ==
    m_pc = "returned" =>
        \A k \in Keys : Carrying(k) # {} =>
            /\ k \in m_result[1].present
            /\ m_result[1].value[k] = LastValue(k)

\* C24: for each of the five keys, when the last parsed payload holding the
\* key carries a value other than null, run_orpda_cycle returns that value;
\* when it carries null, or no parsed payload holds the key, the key is not
\* returned, except observation, which is then the fallback observation.
\* Keys outside the five are never returned.
C24_LatestPassWins ==
    m_pc = "returned" =>
        /\ DOMAIN m_result[1].value = Keys
        /\ \A k \in Keys :
            IF Carrying(k) # {} /\ LastValue(k) # None
            THEN /\ k \in m_result[1].present
                 /\ m_result[1].value[k] = LastValue(k)
            ELSE IF k = "observation"
            THEN /\ k \in m_result[1].present
                 /\ m_result[1].value[k] = build_observation(m_ctx)
            ELSE k \notin m_result[1].present

C24_Witness ==
    /\ m_pc = "returned" /\ Len(events) = 2
    /\ Merges(events[1]) /\ events[1].body["plan"] = "a"
    /\ Merges(events[2]) /\ events[2].body["plan"] = "b"
    /\ m_result[1].value["plan"] = "b"


----------------------------------------------------------------------------
(* Further properties of store_turns (specification SpecStore)             *)

\* a store_turns call for the key is past the marking and has not ended
InProgress(key) ==
    \E c \in StoreCalls :
        /\ DedupKey(st_arg[c]) = key
        /\ st_pc[c] \in {"summarizing", "scoring", "retrying"}

\* C28: whenever a dialogue key is in the seen-set and no store_turns call
\* for it is in progress, the event log holds exactly one event for the key,
\* also after a call that raised once it had marked the key.
C28_SeenImpliesLogged ==
    \A key \in seen : ~InProgress(key) => EventsFor(key) = 1


----------------------------------------------------------------------------
(* RateLimiter.acquire with concurrent callers (specification SpecRLMany)  *)

\* the recorded timestamps in the 60 seconds that end with timestamp i
Trailing(i) == {k \in 1..Len(stamps) : stamps[i] - WINDOW < stamps[k] /\ stamps[k] <= stamps[i]}

\* C25: under every interleaving of the concurrent callers, no recorded
\* timestamp has more than `rate` recorded timestamps in the 60 seconds that
\* end with it, also when more than `rate` callers were blocked at once.
C25_ConcurrentRateBound ==
    \A i \in 1..Len(stamps) : Cardinality(Trailing(i)) <= rate


----------------------------------------------------------------------------
(* Properties of detect_inherent_drift (specification SpecDD)              *)

\* the row has the same plan and action topic and the same observation and
\* action state_summary
ZeroDivergence ==
    /\ dd_row.plan_topic = dd_row.action_topic
    /\ dd_row.obs_summary = dd_row.act_summary

\* all four texts are non-empty and the action's state_summary, lowercased,
\* holds a wandering marker
MarkedSummary ==
    /\ \A i \in 1..4 : RowTexts(dd_row)[i] # <<>>
    /\ \E w \in wandering_markers : Occurs(w, Lower(TextOrEmpty(dd_row.act_summary)))

\* C21 as stated: on every row with equal topics and equal summaries
\* detect_inherent_drift returns inherent_drift false, drift_type_inferred
\* "none" and a drift score of 0, whatever the texts say.
C21_ZeroDivergenceAnyWording ==
    (dd_pc = "returned" /\ ZeroDivergence) =>
        /\ dd_result[1].inherent_drift = FALSE
        /\ dd_result[1].drift_type_inferred = "none"
        /\ dd_result[1].drift_score_inferred = 0

\* C21: on every row with equal topics and equal summaries the drift score
\* is 0; inherent_drift is false and drift_type_inferred "none", unless all
\* four texts are non-empty and the action's state_summary holds a wandering
\* marker, and then inherent_drift is true and drift_type_inferred "internal".
C21_ZeroDivergence ==
    (dd_pc = "returned" /\ ZeroDivergence) =>
        /\ dd_result[1].drift_score_inferred = 0
        /\ dd_result[1].inherent_drift = MarkedSummary
        /\ dd_result[1].drift_type_inferred = IF MarkedSummary THEN "internal" ELSE "none"

C21_Witness ==
    /\ dd_pc = "returned" /\ ZeroDivergence
    /\ dd_row.plan_topic = <<<<"coffee">>>>
    /\ dd_row.act_summary = <<<<"serving", "customers">>>>
    /\ dd_result[1].sim_plan_action = 100 /\ dd_result[1].sim_obs_action = 100
    /\ dd_result[1].inherent_drift = FALSE

----------------------------------------------------------------------------
(* Properties of the serialization gate (specification SpecGate)           *)

InFlight == {c \in GateTasks : g_pc[c] = "calling"}

C26_State ==
    /\ Cardinality(InFlight) <= 1
    /\ Cardinality(g_holds) <= 1
    /\ \A c \in GateTasks : g_pc[c] \in {"calling", "backoff"} => c \in g_holds
    /\ \A c \in GateTasks : g_pc[c] = "waiting" => c \notin g_holds

\* C26: at most one generation call of generate_turn_line, summarize_dialogue
\* and run_and_log is in flight at any moment, and only inside the gate; a
\* task that requests the gate does not hold it; and every task that waits
\* for the gate gets it.
C26_SerializationGate ==
    /\ []C26_State
    /\ \A c \in GateTasks : (g_pc[c] = "waiting") ~> (g_pc[c] = "calling")

C26_Witness ==
    /\ g_kind[1] = "store_turns" /\ g_fn[1] = "run_and_log" /\ g_pc[1] = "waiting"
    /\ g_pc[2] = "calling" /\ g_holds = {2}
    /\ g_pc[3] = "waiting"

====
